---- MODULE Spec2Model ----
(***************************************************************************)
(* Model of src/server.py (db-xplorer): connection pool wrapper, TTL       *)
(* metadata cache with reverse table->schema index, table resolver,        *)
(* ad-hoc SQL guard (run_query_safe) and structured builder                *)
(* (portfolio_query).                                                      *)
(*                                                                         *)
(* Text is modelled as a sequence of one-character strings, so substring   *)
(* tests, trimming, lower-casing and the regular expressions of the source *)
(* are computed character by character.                                    *)
(***************************************************************************)
EXTENDS Integers, Sequences, FiniteSets, TLC

\* ------------------------------------------------------------------------
\* Bounds of the model
\* ------------------------------------------------------------------------
\* last value of the clock (time.time())
MaxTime == 1
\* worker threads of the pool specification
NumThreads == 3
\* number of fragments an ad-hoc SQL text is made of
MaxFrags == 3
\* length of the group_by and metrics lists of a structured query
MaxList == 2
\* number of entries of the filters dict of a structured query
MaxFilters == 2
\* threads that call the cache helpers concurrently
NumCacheThreads == 2

\* ------------------------------------------------------------------------
\* Program constants
\* ------------------------------------------------------------------------
\* CACHE_TTL_SECONDS (environment-configurable, any integer)
CACHE_TTL_SECONDS == 1
\* DB_POOL_MAX (environment-configurable)
max_conn == 2

None == "None"

\* ------------------------------------------------------------------------
\* Characters and text helpers
\* ------------------------------------------------------------------------
UpperChars == <<"A","B","C","D","E","F","G","H","I","J","K","L","M",
                "N","O","P","Q","R","S","T","U","V","W","X","Y","Z">>
LowerChars == <<"a","b","c","d","e","f","g","h","i","j","k","l","m",
                "n","o","p","q","r","s","t","u","v","w","x","y","z">>
Digits == {"0","1","2","3","4","5","6","7","8","9"}
\* str.strip() / \s of the re module (ASCII part)
Whitespace == {" ", "\n", "\t", "\r"}
\* \w of the re module (ASCII part)
WordChars == {UpperChars[i] : i \in 1..26} \cup {LowerChars[i] : i \in 1..26}
             \cup Digits \cup {"_"}

\* str.lower() on one character
LowerChar(c) ==
    IF \E i \in 1..26 : UpperChars[i] = c
    THEN LowerChars[CHOOSE i \in 1..26 : UpperChars[i] = c]
    ELSE c

\* str.lower()
Lower(s) == [i \in 1..Len(s) |-> LowerChar(s[i])]

\* str.strip(): drop leading and trailing whitespace
Strip(s) ==
    LET nonWs == {i \in 1..Len(s) : s[i] \notin Whitespace}
    IN  IF nonWs = {} THEN <<>>
        ELSE LET lo == CHOOSE i \in nonWs : \A j \in nonWs : i <= j
                 hi == CHOOSE i \in nonWs : \A j \in nonWs : j <= i
             IN  SubSeq(s, lo, hi)

\* str.rstrip(";"): drop every trailing ';'
RStripSemi(s) ==
    LET keep == {i \in 1..Len(s) : s[i] # ";"}
    IN  IF keep = {} THEN <<>>
        ELSE SubSeq(s, 1, CHOOSE i \in keep : \A j \in keep : j <= i)

\* the truth value of an optional text: None and "" are false
Truthy(value) == value # None /\ value # ""

\* str.startswith
StartsWith(s, p) == Len(s) >= Len(p) /\ SubSeq(s, 1, Len(p)) = p

\* the `in` operator on strings: p occurs in s as a substring
Contains(s, p) ==
    \E i \in 1..(Len(s) - Len(p) + 1) : SubSeq(s, i, i + Len(p) - 1) = p

EndsWith(s, p) == Len(s) >= Len(p) /\ SubSeq(s, Len(s) - Len(p) + 1, Len(s)) = p

RECURSIVE Concat(_)
\* "".join of a sequence of texts
Concat(ss) == IF ss = <<>> THEN <<>> ELSE Head(ss) \o Concat(Tail(ss))

\* ------------------------------------------------------------------------
\* Names of the store
\* ------------------------------------------------------------------------
\* schemas the store can hold; all match the filter of get_cached_schemas
\* (LIKE 'collections_%' OR LIKE 'recovery_%' OR = 'gold')
Schemas == {"collections_us", "gold"}
\* relation names the store can hold
Names == {"accounts", "loans"}
\* table arguments callers pass: existing names, a typo and a fragment
TableArgs == Names \cup {"acounts", "acc"}

\* a schema crowded with tables whose names all contain "acc"
CrowdSize == 16
CrowdNameList ==
    <<"acc01", "acc02", "acc03", "acc04", "acc05", "acc06", "acc07", "acc08",
      "acc09", "acc10", "acc11", "acc12", "acc13", "acc14", "acc15", "acc16",
      "acc17", "acc18">>
CrowdNames == {CrowdNameList[i] : i \in 1..CrowdSize}
\* relation kinds of information_schema.tables.table_type
Kinds == {"BASE TABLE", "VIEW"}

\* ORDER BY of the store on the names above (byte order)
NameOrder ==
    <<"Accounts", "acc">> \o CrowdNameList
    \o <<"accounts", "acounts", "collections_us", "gold", "loans">>
Rank(n) == CHOOSE i \in 1..Len(NameOrder) : NameOrder[i] = n

RECURSIVE SortedSeq(_)
\* the elements of a finite set of names as a sequence in ORDER BY order
SortedSeq(S) ==
    IF S = {} THEN <<>>
    ELSE LET m == CHOOSE x \in S : \A y \in S : Rank(x) <= Rank(y)
         IN  <<m>> \o SortedSeq(S \ {m})

Range(f) == {f[i] : i \in DOMAIN f}

\* the text of a name, character by character
Chars(n) ==
    CASE n = "accounts" -> <<"a","c","c","o","u","n","t","s">>
      [] n = "loans"    -> <<"l","o","a","n","s">>
      [] n = "acounts"  -> <<"a","c","o","u","n","t","s">>
      [] n = "acc"      -> <<"a","c","c">>
      [] n = "gold"     -> <<"g","o","l","d">>
      [] n = "collections_us" ->
             <<"c","o","l","l","e","c","t","i","o","n","s","_","u","s">>
      [] n = "Accounts" -> <<"A","c","c","o","u","n","t","s">>
      [] OTHER ->
             \* "accNN"
             LET i == CHOOSE k \in 1..Len(CrowdNameList) : CrowdNameList[k] = n
                 digit == <<"0","1","2","3","4","5","6","7","8","9">>
             IN  <<"a","c","c", digit[(i \div 10) + 1], digit[(i % 10) + 1]>>

\* ------------------------------------------------------------------------
\* State
\* ------------------------------------------------------------------------
VARIABLES
    now,              \* time.time()
    store,            \* the database catalog: [schemas, rel]
    CONNECTION_POOL,  \* [id, used]: id = 0 is None, id = k the k-th pool object built
    METADATA_CACHE,   \* [schemas, tables, table_to_schema]
    CONTEXT_STATE,    \* [last_schema, last_table]
    res,              \* what the last completed tool call did and returned
    pc,               \* per thread: the line of get_conn it is at
    POOL_LOCK,        \* the thread inside `with POOL_LOCK`, 0 when free
    input,            \* the arguments of the call a caller is about to make
    CACHE_LOCK,       \* the thread inside `with CACHE_LOCK`, 0 when free
    frame,            \* per thread: the locals of the cache helper it is in
    connections       \* the raw connections of the pool: [autocommit, status, owner, reused]

vars == <<now, store, CONNECTION_POOL, METADATA_CACHE, CONTEXT_STATE, res,
          pc, POOL_LOCK, input, CACHE_LOCK, frame, connections>>

\* what a tool call leaves alone: the threads that step through get_conn
\* line by line, and the arguments of the pending call
threadVars == <<pc, POOL_LOCK, input, CACHE_LOCK, frame, connections>>

Threads == 1..NumThreads

\* a catalog: the schemas and the relations <<schema, name, kind>> in them
Catalog(S, R) == [schemas |-> S, rel |-> R]

\* the catalogs the store is started with
Stores ==
    {\* no schema matches the filter of get_cached_schemas
     Catalog({}, {}),
     \* schemas without relations
     Catalog(Schemas, {}),
     \* an "accounts" table in both schemas
     Catalog(Schemas, {<<"collections_us", "accounts", "BASE TABLE">>,
                       <<"collections_us", "loans", "BASE TABLE">>,
                       <<"gold", "accounts", "BASE TABLE">>}),
     \* "accounts" is a view in collections_us
     Catalog(Schemas, {<<"collections_us", "accounts", "VIEW">>,
                       <<"collections_us", "loans", "BASE TABLE">>}),
     \* no "accounts" anywhere
     Catalog(Schemas, {<<"gold", "loans", "BASE TABLE">>})}

\* ------------------------------------------------------------------------
\* Connection pool (lines 50-98)
\* ------------------------------------------------------------------------
\* number of connections currently borrowed from the pool
Borrowed(pool) == pool.used

\* a slip: the pool is built without looking at CONNECTION_POOL again
init_connection_pool_unchecked(pool) ==
    [id |-> pool.id + 1, used |-> 0]

\* init_connection_pool, the body of `with POOL_LOCK` (lines 53-64): the
\* pool is built only if CONNECTION_POOL is still None
init_connection_pool(pool) ==
    IF pool.id = 0 THEN [id |-> pool.id + 1, used |-> 0] ELSE pool

\* ThreadedConnectionPool.getconn() (line 96): psycopg2 raises PoolError once
\* maxconn connections are in use; it does not wait for a release
getconn(pool) ==
    IF pool.used >= max_conn THEN [pool |-> pool, ok |-> FALSE]
    ELSE [pool |-> [pool EXCEPT !.used = @ + 1], ok |-> TRUE]

\* get_conn as one step of a tool call.  "connect" \in F: the database
\* cannot be reached, building the pool or a connection raises.
get_conn(pool, F) ==
    IF "connect" \in F THEN [pool |-> pool, ok |-> FALSE]
    ELSE getconn(IF pool.id = 0 THEN init_connection_pool(pool) ELSE pool)

\* release_conn via PooledConnection.close(): putconn(raw)
release_conn(pool) == [pool EXCEPT !.used = @ - 1]

\* a raw connection as psycopg2 opens it: autocommit off, no transaction;
\* owner is the thread that borrowed it, 0 while it is in the pool
NewConnection ==
    [autocommit |-> FALSE, status |-> "idle", owner |-> 0, reused |-> FALSE]

\* get_conn handing the raw connection out as it comes from the pool
Borrow_as_is(conn, t) ==
    [conn EXCEPT !.owner = t, !.reused = (conn # NewConnection)]

\* get_conn (lines 96-98) on the raw connection getconn() returned, new or
\* reused: autocommit is switched on before the connection is handed out
Borrow(conn, t) ==
    [conn EXCEPT !.owner = t, !.autocommit = TRUE,
                 !.reused = (conn # NewConnection)]

\* cursor.execute on a connection: with autocommit every statement is its
\* own transaction; without it a statement opens a transaction, which a
\* failed statement leaves aborted until a rollback
cursor_execute(conn, ok) ==
    [conn EXCEPT !.status =
        IF conn.autocommit THEN "idle"
        ELSE IF ok /\ conn.status # "aborted" THEN "in_transaction"
        ELSE "aborted"]

\* conn.rollback() in the except branches of the tools
rollback(conn) == [conn EXCEPT !.status = "idle"]

\* a close() that leaves the connection with its borrower
putconn_kept(conn) == conn

\* putconn(raw) (line 78): the pool takes the connection back as it is when
\* it is idle, and rolls it back first when it is not
putconn(conn) == [conn EXCEPT !.owner = 0, !.status = "idle"]

\* ------------------------------------------------------------------------
\* Metadata cache helpers (lines 106-236)
\* ------------------------------------------------------------------------
\* what a cache helper hands back to its caller: the cache and pool after
\* the call, whether it raised, its return value, the store round-trips it
\* issued and the connections it acquired itself
Outcome(cache, pool, raised, ret, rt, acq) ==
    [cache |-> cache, pool |-> pool, raised |-> raised, ret |-> ret,
     rt |-> rt, acq |-> acq]

\* iteration order of a Python set / list(set): not fixed by the language.
\* Every set iterated here has at most two elements, so the two orders
\* below are all the orders there are.
Orders == {"asc", "desc"}
Reverse(s) == [i \in 1..Len(s) |-> s[Len(s) + 1 - i]]
SetToSeq(S, ord) == IF ord = "asc" THEN SortedSeq(S) ELSE Reverse(SortedSeq(S))

\* a slip in the TTL comparison: an entry exactly TTL seconds old is served
_is_cache_valid_late(entry) ==
    IF entry.data = <<>> THEN FALSE
    ELSE (now - entry.timestamp) <= CACHE_TTL_SECONDS

\* entries are records here; a missing entry (None) is tested by the callers
_is_cache_valid(entry) ==
    IF entry.data = <<>> THEN FALSE
    ELSE (now - entry.timestamp) < CACHE_TTL_SECONDS

\* dict.get(key, default)
DictGet(d, k, default) == IF k \in DOMAIN d THEN d[k] ELSE default

\* d[k] = v
DictSet(d, k, v) == [x \in (DOMAIN d) \cup {k} |-> IF x = k THEN v ELSE d[x]]

\* a slip: the schemas recorded for a name are replaced, not added to
_update_table_to_schema_map_replacing(t2s, schema, table_names) ==
    [n \in (DOMAIN t2s) \cup Range(table_names) |->
        IF n \in Range(table_names) THEN {schema} ELSE t2s[n]]

_update_table_to_schema_map(t2s, schema, table_names) ==
    [n \in (DOMAIN t2s) \cup Range(table_names) |->
        IF n \in Range(table_names)
        THEN (IF n \in DOMAIN t2s THEN t2s[n] ELSE {}) \cup {schema}
        ELSE t2s[n]]

\* SELECT schema_name FROM information_schema.schemata WHERE ... ORDER BY
QuerySchemas == SortedSeq(store.schemas)

\* SELECT table_name ... WHERE table_schema = %s AND table_type = 'BASE TABLE'
QueryTables(schema) ==
    SortedSeq({r[2] : r \in {x \in store.rel : x[1] = schema /\ x[3] = "BASE TABLE"}})

\* SELECT table_schema, table_name ... WHERE table_name = %s ORDER BY table_schema
QueryAcross(table) ==
    LET S == {r[1] : r \in {x \in store.rel : x[2] = table}}
        ss == SortedSeq(S)
    IN  [i \in 1..Len(ss) |-> <<ss[i], table>>]

get_cached_schemas(cache, pool, conn, force_refresh, F) ==
    LET entry == cache.schemas
    IN  IF ~force_refresh /\ _is_cache_valid(entry)
        THEN Outcome(cache, pool, FALSE, entry.data, 0, 0)
        ELSE LET g == IF conn THEN [pool |-> pool, ok |-> TRUE] ELSE get_conn(pool, F)
                 own == IF conn THEN 0 ELSE 1
             IN  IF ~g.ok THEN Outcome(cache, pool, TRUE, <<>>, 0, 0)
                 ELSE IF "schemas" \in F
                 THEN \* cur.execute raises: conn.close() at line 144 is skipped
                      Outcome(cache, g.pool, TRUE, <<>>, 1, own)
                 ELSE Outcome(
                        [cache EXCEPT !.schemas =
                            [data |-> QuerySchemas, timestamp |-> now]],
                        IF conn THEN g.pool ELSE release_conn(g.pool),
                        FALSE, QuerySchemas, 1, own)

\* a slip: the entry is stamped before the query has answered
get_cached_table_names_stamped(cache, pool, schema, conn, force_refresh, F) ==
    IF /\ schema \in DOMAIN cache.tables
       /\ ~force_refresh
       /\ _is_cache_valid(cache.tables[schema])
    THEN Outcome(cache, pool, FALSE, cache.tables[schema].data, 0, 0)
    ELSE LET g == IF conn THEN [pool |-> pool, ok |-> TRUE] ELSE get_conn(pool, F)
             own == IF conn THEN 0 ELSE 1
             names == QueryTables(schema)
             held == DictGet(cache.tables, schema, [data |-> <<>>, timestamp |-> 0])
         IN  IF ~g.ok THEN Outcome(cache, pool, TRUE, <<>>, 0, 0)
             ELSE IF "tables" \in F
             THEN Outcome(
                    [cache EXCEPT
                        !.tables = DictSet(@, schema,
                                           [data |-> held.data, timestamp |-> now])],
                    g.pool, TRUE, <<>>, 1, own)
             ELSE Outcome(
                    [cache EXCEPT
                        !.tables = DictSet(@, schema,
                                           [data |-> names, timestamp |-> now]),
                        !.table_to_schema =
                            _update_table_to_schema_map(@, schema, names)],
                    IF conn THEN g.pool ELSE release_conn(g.pool),
                    FALSE, names, 1, own)

get_cached_table_names(cache, pool, schema, conn, force_refresh, F) ==
    IF /\ schema \in DOMAIN cache.tables
       /\ ~force_refresh
       /\ _is_cache_valid(cache.tables[schema])
    THEN Outcome(cache, pool, FALSE, cache.tables[schema].data, 0, 0)
    ELSE LET g == IF conn THEN [pool |-> pool, ok |-> TRUE] ELSE get_conn(pool, F)
             own == IF conn THEN 0 ELSE 1
             names == QueryTables(schema)
         IN  IF ~g.ok THEN Outcome(cache, pool, TRUE, <<>>, 0, 0)
             ELSE IF "tables" \in F
             THEN \* cur.execute raises: conn.close() at line 175 is skipped
                  Outcome(cache, g.pool, TRUE, <<>>, 1, own)
             ELSE Outcome(
                    [cache EXCEPT
                        !.tables = DictSet(@, schema,
                                           [data |-> names, timestamp |-> now]),
                        !.table_to_schema =
                            _update_table_to_schema_map(@, schema, names)],
                    IF conn THEN g.pool ELSE release_conn(g.pool),
                    FALSE, names, 1, own)

\* a slip: the names held before are dropped
update_table_cache_from_results_replacing(cache, schema, table_names, ord) ==
    IF table_names = <<>> THEN cache
    ELSE [cache EXCEPT
            !.tables = DictSet(@, schema,
                               [data |-> SetToSeq(Range(table_names), ord),
                                timestamp |-> now]),
            !.table_to_schema =
                _update_table_to_schema_map(@, schema, table_names)]

update_table_cache_from_results(cache, schema, table_names, ord) ==
    IF table_names = <<>> THEN cache
    ELSE LET entry == DictGet(cache.tables, schema, [data |-> <<>>, timestamp |-> 0])
             existing == Range(entry.data) \cup Range(table_names)
         IN  [cache EXCEPT
                !.tables = DictSet(@, schema,
                                   [data |-> SetToSeq(existing, ord),
                                    timestamp |-> now]),
                !.table_to_schema =
                    _update_table_to_schema_map(@, schema, table_names)]

RECURSIVE MergeRows(_, _, _)
\* lines 233-234: for schema_name, table_name in rows: update_table_cache...
MergeRows(cache, rows, ord) ==
    IF rows = <<>> THEN cache
    ELSE MergeRows(
            update_table_cache_from_results(cache, Head(rows)[1],
                                            <<Head(rows)[2]>>, ord),
            Tail(rows), ord)

\* a slip: the rows of the store are returned but not merged into the cache
find_table_across_schemas_unmerged(cache, pool, table, conn, F, ord) ==
    LET schema_set == DictGet(cache.table_to_schema, table, {})
    IN  IF schema_set # {}
        THEN LET ss == SetToSeq(schema_set, ord)
             IN  Outcome(cache, pool, FALSE,
                         [i \in 1..Len(ss) |-> [schema |-> ss[i], table |-> table]],
                         0, 0)
        ELSE LET g == IF conn THEN [pool |-> pool, ok |-> TRUE] ELSE get_conn(pool, F)
                 own == IF conn THEN 0 ELSE 1
                 rows == QueryAcross(table)
             IN  IF ~g.ok THEN Outcome(cache, pool, TRUE, <<>>, 0, 0)
                 ELSE IF "across" \in F
                 THEN Outcome(cache, g.pool, TRUE, <<>>, 1, own)
                 ELSE Outcome(
                        cache,
                        IF conn THEN g.pool ELSE release_conn(g.pool),
                        FALSE,
                        [i \in 1..Len(rows) |->
                            [schema |-> rows[i][1], table |-> rows[i][2]]],
                        1, own)

find_table_across_schemas(cache, pool, table, conn, F, ord) ==
    LET schema_set == DictGet(cache.table_to_schema, table, {})
    IN  IF schema_set # {}
        THEN LET ss == SetToSeq(schema_set, ord)
             IN  Outcome(cache, pool, FALSE,
                         [i \in 1..Len(ss) |-> [schema |-> ss[i], table |-> table]],
                         0, 0)
        ELSE LET g == IF conn THEN [pool |-> pool, ok |-> TRUE] ELSE get_conn(pool, F)
                 own == IF conn THEN 0 ELSE 1
                 rows == QueryAcross(table)
             IN  IF ~g.ok THEN Outcome(cache, pool, TRUE, <<>>, 0, 0)
                 ELSE IF "across" \in F
                 THEN \* cur.execute raises: conn.close() at line 231 is skipped
                      Outcome(cache, g.pool, TRUE, <<>>, 1, own)
                 ELSE Outcome(
                        MergeRows(cache, rows, ord),
                        IF conn THEN g.pool ELSE release_conn(g.pool),
                        FALSE,
                        [i \in 1..Len(rows) |->
                            [schema |-> rows[i][1], table |-> rows[i][2]]],
                        1, own)

\* update_context storing its arguments whether they are provided or not
update_context_destructive(ctx, schema, table) ==
    [last_schema |-> schema, last_table |-> table]

\* update_context (lines 201-205)
update_context(ctx, schema, table) ==
    [last_schema |-> IF Truthy(schema) THEN schema ELSE ctx.last_schema,
     last_table  |-> IF Truthy(table) THEN table ELSE ctx.last_table]

\* ------------------------------------------------------------------------
\* difflib.SequenceMatcher(None, a, b).ratio() (lines 1145-1147)
\* ------------------------------------------------------------------------
Min(x, y) == IF x <= y THEN x ELSE y

RECURSIVE MatchCount(_, _, _, _, _, _)
\* number of matched characters: the longest common block of a[alo..ahi]
\* and b[blo..bhi] (earliest in a, then earliest in b), then the same to its
\* left and to its right.  No character is junk for texts this short.
MatchCount(a, alo, ahi, b, blo, bhi) ==
    LET blocks == {c \in (alo..ahi) \X (blo..bhi) \X (1..Len(a)) :
                      /\ c[1] + c[3] - 1 <= ahi
                      /\ c[2] + c[3] - 1 <= bhi
                      /\ SubSeq(a, c[1], c[1] + c[3] - 1)
                            = SubSeq(b, c[2], c[2] + c[3] - 1)}
    IN  IF blocks = {} THEN 0
        ELSE LET best == CHOOSE c \in blocks : \A d \in blocks :
                            \/ c[3] > d[3]
                            \/ c[3] = d[3] /\ c[1] < d[1]
                            \/ c[3] = d[3] /\ c[1] = d[1] /\ c[2] <= d[2]
             IN  best[3]
                 + MatchCount(a, alo, best[1] - 1, b, blo, best[2] - 1)
                 + MatchCount(a, best[1] + best[3], ahi, b, best[2] + best[3], bhi)

\* ratio() = 2.0 * M / T as the fraction <<2M, T>>; 1.0 for two empty texts
Ratio(a, b) ==
    LET la == Lower(Chars(a))
        lb == Lower(Chars(b))
    IN  IF Len(la) + Len(lb) = 0 THEN <<1, 1>>
        ELSE <<2 * MatchCount(la, 1, Len(la), lb, 1, Len(lb)), Len(la) + Len(lb)>>

\* the ratios of all pairs (known name, queried name), computed once
RatioTable ==
    [a \in Names \cup CrowdNames \cup {"Accounts"} |->
        [b \in TableArgs |-> Ratio(a, b)]]

similarity(a, b) == RatioTable[a][b]

\* r1 > r2 for two ratios
RatioGreater(r1, r2) == r1[1] * r2[2] > r2[1] * r1[2]

RECURSIVE SortedBySimilarity(_, _)
\* sorted(names, key=lambda name: similarity(name, table), reverse=True):
\* descending, names of equal ratio keep their order
SortedBySimilarity(names, table) ==
    IF names = <<>> THEN <<>>
    ELSE LET i == CHOOSE k \in 1..Len(names) :
                    /\ \A j \in 1..Len(names) :
                          ~RatioGreater(similarity(names[j], table),
                                        similarity(names[k], table))
                    /\ \A j \in 1..(k - 1) :
                          RatioGreater(similarity(names[k], table),
                                       similarity(names[j], table))
         IN  <<names[i]>> \o
             SortedBySimilarity(SubSeq(names, 1, i - 1) \o
                                SubSeq(names, i + 1, Len(names)), table)

\* a slip: one element too many
Take_one_more(s, n) == SubSeq(s, 1, Min(n + 1, Len(s)))

\* s[:n]
Take(s, n) == SubSeq(s, 1, Min(n, Len(s)))

\* ------------------------------------------------------------------------
\* Resolver: check_table_exists, the definition in force (lines 583-641)
\* ------------------------------------------------------------------------
\* a suggestion "schema.table" is the pair <<schema, table>>
Qualified(schema, names) == [i \in 1..Len(names) |-> <<schema, names[i]>>]

\* a slip: the same-schema suggestion is filled in before the early return
Found_with_suggestion(result, schema) ==
    [result EXCEPT !.exists = TRUE, !.actual_schema = schema,
                   !.suggestions = <<<<schema, result.table>>>>]

\* lines 604-607: the table is a member of the schema's list
Found(result, schema) ==
    [result EXCEPT !.exists = TRUE, !.actual_schema = schema]

\* a slip: similar names win over a match in another schema
Guidance_similar_first(found_elsewhere, suggestions) ==
    IF suggestions # <<>> THEN "similar"
    ELSE IF found_elsewhere # <<>> THEN "elsewhere"
    ELSE "missing"

\* lines 623-639: which of the three messages is built
Guidance(found_elsewhere, suggestions) ==
    IF found_elsewhere # <<>> THEN "elsewhere"
    ELSE IF suggestions # <<>> THEN "similar"
    ELSE "missing"

check_table_exists(cache, pool, schema, table, conn, F, ord) ==
    LET result == [exists |-> FALSE, schema |-> schema, table |-> table,
                   actual_schema |-> None, suggestions |-> <<>>,
                   similar_tables |-> <<>>, message |-> None]
        o1 == get_cached_table_names(cache, pool, schema, conn, FALSE, F)
        table_names == o1.ret
        InName(name) == Contains(Lower(Chars(name)), Lower(Chars(table)))
        substr == SelectSeq(table_names, InName)
        similar_in_schema ==
            IF substr # <<>> THEN substr
            ELSE Take(SortedBySimilarity(table_names, table), 5)
        sugg1 == Qualified(schema, similar_in_schema)
        o2 == find_table_across_schemas(o1.cache, o1.pool, table, conn, F, ord)
        found_elsewhere == o2.ret
        sugg2 == [i \in 1..Len(found_elsewhere) |->
                    <<found_elsewhere[i].schema, found_elsewhere[i].table>>]
    IN  IF o1.raised
        THEN Outcome(o1.cache, o1.pool, FALSE,
                     [result EXCEPT !.message = "error"], o1.rt, o1.acq)
        ELSE IF \E i \in 1..Len(table_names) : table_names[i] = table
        THEN Outcome(o1.cache, o1.pool, FALSE, Found(result, schema),
                     o1.rt, o1.acq)
        ELSE IF o2.raised
        THEN \* line 622 is outside every try block
             Outcome(o2.cache, o2.pool, TRUE, result, o1.rt + o2.rt, o1.acq + o2.acq)
        ELSE Outcome(o2.cache, o2.pool, FALSE,
                     [result EXCEPT
                        !.suggestions = sugg1 \o sugg2,
                        !.similar_tables = found_elsewhere,
                        !.message = Guidance(found_elsewhere, sugg1)],
                     o1.rt + o2.rt, o1.acq + o2.acq)

\* ------------------------------------------------------------------------
\* Results of tool calls
\* ------------------------------------------------------------------------
\* Observations of the call, for stating properties: res.before is the cache
\* entry the call found, res.at the time of the call, res.listing the table
\* list get_cached_table_names handed to the resolver, res.executed the
\* statements sent to the store whose text depends on the caller, and
\* res.interpolated the identifiers formatted into statement text
NoEntry == [data |-> <<>>, timestamp |-> 0]

\* the locals of a thread outside the cache helpers
NoFrame == [schema |-> None, table |-> None, rows |-> <<>>]

NoRes ==
    [op |-> "none", arg |-> <<>>, raised |-> FALSE, ret |-> <<>>,
     rt |-> 0, acq |-> 0, before |-> NoEntry, at |-> 0, listing |-> <<>>,
     executed |-> <<>>, interpolated |-> {}]

Res(op, arg, o) ==
    [NoRes EXCEPT !.op = op, !.arg = arg, !.raised = o.raised, !.ret = o.ret,
                  !.rt = o.rt, !.acq = o.acq]

\* sets of store queries that fail during one tool call
\* "connect": no connection can be made; the others name the statement
\* that raises
FailPoints == {"connect", "schemas", "tables", "across", "main", "meta",
               "columns", "sample", "exact"}
\* at most one failure per call, among the failures the call can meet
FailSets(points) == {{}} \cup {{f} : f \in points \cap FailPoints}

\* ------------------------------------------------------------------------
\* Environment: the clock
\* ------------------------------------------------------------------------
Tick ==
    /\ now < CACHE_TTL_SECONDS + MaxTime
    /\ now' = now + 1
    /\ UNCHANGED <<store, CONNECTION_POOL, METADATA_CACHE, CONTEXT_STATE, res>>
    /\ UNCHANGED threadVars

\* the state after import, before any call; a caller that has prepared the
\* arguments of a call holds them in input
InitWith(inputs) ==
    \* the epoch timestamps of the initial cache are long expired
    /\ now = CACHE_TTL_SECONDS
    /\ store \in Stores
    /\ CONNECTION_POOL = [id |-> 0, used |-> 0]
    /\ METADATA_CACHE =
          [schemas |-> NoEntry, tables |-> <<>>, table_to_schema |-> <<>>]
    /\ CONTEXT_STATE = [last_schema |-> None, last_table |-> None]
    /\ res = NoRes
    /\ pc = [t \in Threads |-> "idle"]
    /\ POOL_LOCK = 0
    /\ input \in inputs
    /\ CACHE_LOCK = 0
    /\ frame = [t \in Threads |-> NoFrame]
    /\ connections = [c \in 1..max_conn |-> NewConnection]

Init == InitWith({<<>>})

\* ------------------------------------------------------------------------
\* Tools
\* ------------------------------------------------------------------------
\* list_schemas (lines 342-345)
list_schemas ==
    \E F \in FailSets({"connect", "schemas"}) :
        LET o == get_cached_schemas(METADATA_CACHE, CONNECTION_POOL, FALSE, FALSE, F)
        IN  /\ METADATA_CACHE' = o.cache
            /\ CONNECTION_POOL' = o.pool
            /\ res' = [Res("list_schemas", <<>>, o) EXCEPT
                          !.before = METADATA_CACHE.schemas, !.at = now]
            /\ UNCHANGED <<now, store, CONTEXT_STATE>>
            /\ UNCHANGED threadVars

\* verify_table_exists, the definition in force (lines 1626-1649)
verify_table_exists ==
    \E schema \in Schemas, table \in TableArgs, ord \in Orders,
       F \in FailSets({"connect", "tables", "across"}) :
        LET o == check_table_exists(METADATA_CACHE, CONNECTION_POOL,
                                    schema, table, FALSE, F, ord)
            l == get_cached_table_names(METADATA_CACHE, CONNECTION_POOL,
                                        schema, FALSE, FALSE, F)
        IN  /\ METADATA_CACHE' = o.cache
            /\ CONNECTION_POOL' = o.pool
            /\ res' = [Res("verify_table_exists", <<schema, table>>, o) EXCEPT
                          !.listing = l.ret]
            /\ UNCHANGED <<now, store, CONTEXT_STATE>>
            /\ UNCHANGED threadVars

\* ------------------------------------------------------------------------
\* Tool: run_query_safe (lines 863-928)
\* ------------------------------------------------------------------------
FORBIDDEN ==
    <<<<"u","p","d","a","t","e">>,
      <<"d","e","l","e","t","e">>,
      <<"i","n","s","e","r","t">>,
      <<"a","l","t","e","r">>,
      <<"d","r","o","p">>,
      <<"t","r","u","n","c","a","t","e">>,
      <<"c","r","e","a","t","e">>>>

\* re.search(r"cross join", cleaned)
MatchesCrossJoin(s) == Contains(s, <<"c","r","o","s","s"," ","j","o","i","n">>)

\* re.search(r",\s*\w+\s*", cleaned): a comma, any whitespace, then at least
\* one word character
MatchesCommaWord(s) ==
    \E i \in 1..Len(s) :
        /\ s[i] = ","
        /\ \E j \in (i + 1)..Len(s) :
              /\ s[j] \in WordChars
              /\ \A k \in (i + 1)..(j - 1) : s[k] \in Whitespace

\* any(re.search(pat, cleaned) for pat in BLOCK_PATTERNS)
BLOCK_PATTERNS(s) == MatchesCrossJoin(s) \/ MatchesCommaWord(s)

\* lines 880-882 reporting the last keyword of FORBIDDEN found in the text
FirstForbidden_last(cleaned) ==
    IF \E i \in 1..Len(FORBIDDEN) : Contains(cleaned, FORBIDDEN[i])
    THEN CHOOSE i \in 1..Len(FORBIDDEN) :
            /\ Contains(cleaned, FORBIDDEN[i])
            /\ \A j \in (i + 1)..Len(FORBIDDEN) : ~Contains(cleaned, FORBIDDEN[j])
    ELSE 0

\* the first keyword of FORBIDDEN found in the text, 0 if there is none
FirstForbidden(cleaned) ==
    IF \E i \in 1..Len(FORBIDDEN) : Contains(cleaned, FORBIDDEN[i])
    THEN CHOOSE i \in 1..Len(FORBIDDEN) :
            /\ Contains(cleaned, FORBIDDEN[i])
            /\ \A j \in 1..(i - 1) : ~Contains(cleaned, FORBIDDEN[j])
    ELSE 0

\* lines 873-887 with the blocked patterns tested before the keywords
GuardVerdict_patterns_first(sql) ==
    LET cleaned == Strip(Lower(sql))
    IN  IF ~StartsWith(cleaned, <<"s","e","l","e","c","t">>) THEN <<"only_select", 0>>
        ELSE IF BLOCK_PATTERNS(cleaned) THEN <<"blocked", 0>>
        ELSE IF FirstForbidden(cleaned) # 0
        THEN <<"not_allowed", FirstForbidden(cleaned)>>
        ELSE <<"accepted", 0>>

\* lines 873-887: the reason the text is rejected for, "accepted" otherwise
GuardVerdict(sql) ==
    LET cleaned == Strip(Lower(sql))
    IN  IF ~StartsWith(cleaned, <<"s","e","l","e","c","t">>) THEN <<"only_select", 0>>
        ELSE IF FirstForbidden(cleaned) # 0
        THEN <<"not_allowed", FirstForbidden(cleaned)>>
        ELSE IF BLOCK_PATTERNS(cleaned) THEN <<"blocked", 0>>
        ELSE <<"accepted", 0>>

\* line 891 run on the normalized text instead of the caller's text
EnforceLimit_lowered(sql) ==
    IF ~Contains(Strip(Lower(sql)), <<"l","i","m","i","t">>)
    THEN RStripSemi(Strip(Lower(sql))) \o <<" ","L","I","M","I","T"," ","2","0","0",";">>
    ELSE sql

\* lines 889-891: enforce LIMIT
EnforceLimit(sql) ==
    IF ~Contains(Strip(Lower(sql)), <<"l","i","m","i","t">>)
    THEN RStripSemi(sql) \o <<" ","L","I","M","I","T"," ","2","0","0",";">>
    ELSE sql

\* what the store answers to an accepted statement: rows, an error, or the
\* error 'relation "schema.table" does not exist' for a relation it lacks
ExecOutcomes ==
    {<<"ok", None, None>>, <<"error", None, None>>}
    \cup {<<"missing", sc, tb>> : sc \in Schemas, tb \in TableArgs}

\* the result of a tool call that was refused or failed
ErrorResult(kind) == [error |-> kind, suggestions |-> <<>>]
\* the result of a tool call that produced rows
RowsResult == [error |-> None, suggestions |-> <<>>]

run_query_safe(sql, outcome, F, ord) ==
    LET verdict == GuardVerdict(sql)
        text == EnforceLimit(sql)
        g == get_conn(CONNECTION_POOL, F)
        \* lines 905-914: the resolver is asked about the relation the error
        \* names, on a connection of its own
        c == check_table_exists(METADATA_CACHE, release_conn(g.pool),
                                outcome[2], outcome[3], FALSE, F, ord)
    IN  /\ outcome[1] = "missing" =>
              \A k \in Kinds : <<outcome[2], outcome[3], k>> \notin store.rel
        /\ IF verdict[1] # "accepted"
           THEN /\ res' = [Res("run_query_safe", sql,
                               Outcome(METADATA_CACHE, CONNECTION_POOL, FALSE,
                                       ErrorResult(verdict), 0, 0))
                           EXCEPT !.executed = <<>>]
                /\ UNCHANGED <<METADATA_CACHE, CONNECTION_POOL>>
           ELSE IF ~g.ok
           THEN \* get_conn raises at line 893
                /\ res' = Res("run_query_safe", sql,
                              Outcome(METADATA_CACHE, CONNECTION_POOL, TRUE,
                                      ErrorResult(<<"raised", 0>>), 0, 0))
                /\ UNCHANGED <<METADATA_CACHE, CONNECTION_POOL>>
           ELSE IF outcome[1] = "ok"
           THEN /\ res' = [Res("run_query_safe", sql,
                               Outcome(METADATA_CACHE, release_conn(g.pool), FALSE,
                                       RowsResult, 1, 1))
                           EXCEPT !.executed = <<text>>]
                /\ CONNECTION_POOL' = release_conn(g.pool)
                /\ UNCHANGED METADATA_CACHE
           ELSE IF outcome[1] = "error"
           THEN /\ res' = [Res("run_query_safe", sql,
                               Outcome(METADATA_CACHE, release_conn(g.pool), FALSE,
                                       ErrorResult(<<"store", 0>>), 1, 1))
                           EXCEPT !.executed = <<text>>]
                /\ CONNECTION_POOL' = release_conn(g.pool)
                /\ UNCHANGED METADATA_CACHE
           ELSE /\ res' = [Res("run_query_safe", sql,
                               Outcome(c.cache, c.pool, c.raised,
                                       [error |-> <<"store", 0>>,
                                        suggestions |-> c.ret.suggestions,
                                        \* the relation the error text names
                                        relation |-> <<outcome[2], outcome[3]>>],
                                       1 + c.rt, 1 + c.acq))
                           EXCEPT !.executed = <<text>>]
                /\ CONNECTION_POOL' = c.pool
                /\ METADATA_CACHE' = c.cache
        /\ UNCHANGED <<now, store, CONTEXT_STATE>>
        /\ UNCHANGED threadVars

\* the fragments ad-hoc texts are made of
Fragments ==
    {<<"s","e","l","e","c","t">>,
     <<"S","E","L","E","C","T">>,
     <<" ","a">>,
     <<" ","f","r","o","m"," ","t">>,
     <<",">>,
     <<" ","f","r","o","m"," ","l","i","m","i","t","s">>,
     <<";">>,
     <<" ","l","i","m","i","t"," ","5">>,
     <<"D","R","O","P"," ","T","A","B","L","E"," ","x">>,
     <<" ","*",",">>,
     <<" ","c","r","o","s","s"," ","j","o","i","n"," ","u">>,
     <<" ","u","p","d","a","t","e","d","_","a","t">>,
     <<" ">>}

\* the ad-hoc texts: one to MaxFrags fragments in a row
SqlTexts ==
    UNION {{Concat(fs) : fs \in [1..n -> Fragments]} : n \in 1..MaxFrags}

\* a caller holds an ad-hoc text; the catalog plays no part, the store answers
\* the text with rows or with an error
InitGuard == InitWith(SqlTexts) /\ store = Catalog(Schemas, {})

\* the guard and the execution of the caller's text, with a store that
\* answers with rows or with an error
NextGuard ==
    /\ res.op = "none"
    /\ \E outcome \in {<<"ok", None, None>>, <<"error", None, None>>},
          F \in FailSets({"connect"}) :
          run_query_safe(input, outcome, F, "asc")

SpecGuard == InitGuard /\ [][NextGuard]_vars

\* ------------------------------------------------------------------------
\* Tool: portfolio_query (lines 1656-1826)
\* ------------------------------------------------------------------------
allowed_group_by == <<"file_month", "region", "bucket", "vintage_band">>

allowed_metrics ==
    <<"pos", "one_plus_balance", "recovery_rate", "flow_rate_b1_b2",
      "rate_loss_value", "rate_loss_bps">>

aggregation_map(metric) ==
    IF metric \in {"recovery_rate", "flow_rate_b1_b2", "rate_loss_bps"}
    THEN "AVG" ELSE "SUM"

\* re.match(r"^\d{4}-\d{2}$", month): in Python `$` also matches just before
\* a newline that ends the text
MatchesDatePattern(month) ==
    /\ Len(month) >= 7
    /\ \A i \in {1, 2, 3, 4, 6, 7} : month[i] \in Digits
    /\ month[5] = "-"
    /\ \/ Len(month) = 7
       \/ Len(month) = 8 /\ month[8] = "\n"

\* lines 1754-1768 without the test of the key at line 1762
RECURSIVE AcceptedFilters_unchecked(_, _)
AcceptedFilters_unchecked(filters, product_name) ==
    IF filters = <<>> THEN <<>>
    ELSE LET filter_key == Head(filters)[1]
             filter_value == Head(filters)[2]
             rest == AcceptedFilters_unchecked(Tail(filters), product_name)
         IN  IF filter_key = "product_name" /\ Truthy(product_name) THEN rest
             ELSE IF filter_value # None /\ filter_value # ""
             THEN <<Head(filters)>> \o rest
             ELSE rest

\* the filters that become WHERE conditions (lines 1754-1768), in dict order
RECURSIVE AcceptedFilters(_, _)
AcceptedFilters(filters, product_name) ==
    IF filters = <<>> THEN <<>>
    ELSE LET filter_key == Head(filters)[1]
             filter_value == Head(filters)[2]
             rest == AcceptedFilters(Tail(filters), product_name)
         IN  IF filter_key = "product_name" /\ Truthy(product_name) THEN rest
             ELSE IF /\ filter_key \in Range(allowed_group_by) \cup {"product_name"}
                     /\ filter_value # None
                     /\ filter_value # ""
             THEN <<Head(filters)>> \o rest
             ELSE rest

\* lines 1734-1782 with product_name formatted into the text of the WHERE
\* clause instead of bound
BuildPortfolioSql_interpolating(a) ==
    LET accepted == AcceptedFilters(a.filters, a.product_name)
    IN  [select |-> [i \in 1..Len(a.group_by) |-> <<"", a.group_by[i]>>]
                    \o [i \in 1..Len(a.metrics) |->
                          <<aggregation_map(a.metrics[i]), a.metrics[i]>>],
         from |-> "collections_portfolio.monthly_snapshot",
         where |-> <<<<"file_month", ">= %s">>, <<"file_month", "<= %s">>>>
                   \o (IF Truthy(a.product_name)
                       THEN <<<<"product_name", a.product_name>>>> ELSE <<>>)
                   \o [i \in 1..Len(accepted) |-> <<accepted[i][1], "= %s">>],
         group_by |-> a.group_by,
         order_by |-> a.group_by,
         params |-> <<a.from_month, a.to_month>>
                    \o [i \in 1..Len(accepted) |-> accepted[i][2]],
         identifiers |-> Range(a.group_by) \cup Range(a.metrics)
                         \cup {accepted[i][1] : i \in 1..Len(accepted)}]

\* lines 1734-1782: the statement text, as the identifiers formatted into
\* each clause, and the bound parameters
BuildPortfolioSql(a) ==
    LET accepted == AcceptedFilters(a.filters, a.product_name)
    IN  [select |-> [i \in 1..Len(a.group_by) |-> <<"", a.group_by[i]>>]
                    \o [i \in 1..Len(a.metrics) |->
                          <<aggregation_map(a.metrics[i]), a.metrics[i]>>],
         from |-> "collections_portfolio.monthly_snapshot",
         where |-> <<<<"file_month", ">= %s">>, <<"file_month", "<= %s">>>>
                   \o (IF Truthy(a.product_name)
                       THEN <<<<"product_name", "= %s">>>> ELSE <<>>)
                   \o [i \in 1..Len(accepted) |-> <<accepted[i][1], "= %s">>],
         group_by |-> a.group_by,
         order_by |-> a.group_by,
         params |-> <<a.from_month, a.to_month>>
                    \o (IF Truthy(a.product_name) THEN <<a.product_name>> ELSE <<>>)
                    \o [i \in 1..Len(accepted) |-> accepted[i][2]],
         identifiers |-> Range(a.group_by) \cup Range(a.metrics)
                         \cup {accepted[i][1] : i \in 1..Len(accepted)}]

\* lines 1680-1716: the field the arguments are rejected for, None if valid
ValidationError(a) ==
    IF a.group_by = <<>> THEN "group_by"
    ELSE IF a.metrics = <<>> THEN "metrics"
    ELSE IF \E i \in 1..Len(a.group_by) : a.group_by[i] \notin Range(allowed_group_by)
    THEN "group_by"
    ELSE IF \E i \in 1..Len(a.metrics) : a.metrics[i] \notin Range(allowed_metrics)
    THEN "metrics"
    ELSE IF ~MatchesDatePattern(a.from_month) THEN "from_month"
    ELSE IF ~MatchesDatePattern(a.to_month) THEN "to_month"
    ELSE None

NoSql == [identifiers |-> {}]

portfolio_query(a, F) ==
    LET invalid == ValidationError(a)
        g == get_conn(CONNECTION_POOL, F)
        sql == BuildPortfolioSql(a)
        Result(error, text) == [error |-> error, suggestions |-> <<>>, sql |-> text]
    IN  /\ IF invalid # None
           THEN /\ res' = Res("portfolio_query", a,
                              Outcome(METADATA_CACHE, CONNECTION_POOL, FALSE,
                                      Result(<<"invalid", invalid>>, NoSql), 0, 0))
                /\ UNCHANGED CONNECTION_POOL
           ELSE IF ~g.ok
           THEN \* get_conn raises at line 1729
                /\ res' = Res("portfolio_query", a,
                              Outcome(METADATA_CACHE, CONNECTION_POOL, TRUE,
                                      Result(<<"raised", None>>, NoSql), 0, 0))
                /\ UNCHANGED CONNECTION_POOL
           ELSE \* lines 1785-1826: rows, or the store's error; both paths
                \* close the connection
                /\ res' = [Res("portfolio_query", a,
                               Outcome(METADATA_CACHE, release_conn(g.pool), FALSE,
                                       Result(IF "main" \in F
                                              THEN <<"store", None>>
                                              ELSE <<None, None>>, sql),
                                       1, 1))
                           EXCEPT !.executed = <<sql>>,
                                  !.interpolated = sql.identifiers]
                /\ CONNECTION_POOL' = release_conn(g.pool)
        /\ UNCHANGED <<now, store, METADATA_CACHE, CONTEXT_STATE>>
        /\ UNCHANGED threadVars

\* arguments callers pass
MonthArgs == {<<"2","0","2","5","-","0","1">>, <<"2","0","2","5","-","1">>, <<"2","0","2","5","-","0","1","\n">>}
ToMonthArgs == {<<"2","0","2","5","-","0","3">>, <<"0","3","-","2","0","2","5">>}
GroupArgs == {"region", "region; drop table x"}
MetricArgs == {"pos", "recovery_rate", "pos) FROM x --"}
FilterArgs == {"bucket", "product_name", "1=1 OR bucket"} \X {"B2", "", None}

\* the sequences of length 0..n over S
SeqsUpTo(S, n) == UNION {[1..k -> S] : k \in 0..n}

\* a dict of filters: its items in insertion order, no key twice
FilterDicts ==
    {f \in SeqsUpTo(FilterArgs, MaxFilters) :
        \A i, j \in 1..Len(f) : i # j => f[i][1] # f[j][1]}

PortfolioArgs ==
    [from_month : MonthArgs, to_month : ToMonthArgs,
     group_by : SeqsUpTo(GroupArgs, MaxList),
     metrics : SeqsUpTo(MetricArgs, MaxList),
     product_name : {None, "PL Self", ""},
     filters : FilterDicts]

\* a caller holds the arguments of a structured query; every statement goes
\* to collections_portfolio.monthly_snapshot, whatever the catalog holds
InitBuilder == InitWith(PortfolioArgs) /\ store = Catalog(Schemas, {})

NextBuilder ==
    /\ res.op = "none"
    /\ \E F \in FailSets({"connect", "main"}) : portfolio_query(input, F)

SpecBuilder == InitBuilder /\ [][NextBuilder]_vars

\* ------------------------------------------------------------------------
\* Tools that work on one table (lines 353-535, 732-856, 936-1138)
\* ------------------------------------------------------------------------
\* what a tool call did: the outcome of its helpers, the session context
\* after it, the statements it sent whose text holds formatted identifiers,
\* and those identifiers
ToolOutcome(o, ret, ctx, executed, interpolated) ==
    [cache |-> o.cache, pool |-> o.pool, raised |-> o.raised, ret |-> ret,
     rt |-> o.rt, acq |-> o.acq, ctx |-> ctx, executed |-> executed,
     interpolated |-> interpolated]

\* the tool call as a step of the system
Tool(op, arg, t) ==
    /\ METADATA_CACHE' = t.cache
    /\ CONNECTION_POOL' = t.pool
    /\ CONTEXT_STATE' = t.ctx
    /\ res' = [Res(op, arg, t) EXCEPT !.executed = t.executed,
                                      !.interpolated = t.interpolated]
    /\ UNCHANGED <<now, store>>
    /\ UNCHANGED threadVars

\* the relation is in the catalog, as a table or as a view
RelationExists(schema, table) ==
    \E k \in Kinds : <<schema, table, k>> \in store.rel

\* information_schema.columns of a relation: <<column_name, data_type>>
Columns(schema, table) ==
    IF table = "loans" THEN <<<<"id", "integer">>>>
    ELSE <<<<"id", "integer">>, <<"region", "text">>>>

\* get_conn() at the top of a tool raises: nothing has happened
Unconnected ==
    Outcome(METADATA_CACHE, CONNECTION_POOL, TRUE, <<>>, 0, 0)

\* the f-string statements, by the identifiers formatted into them
Statement(kind, identifiers) == [kind |-> kind, identifiers |-> identifiers]

\* lines 740-747 (and 408-417, 803-810, 1051-1057): the table was not found
NotFound(c) ==
    [error |-> <<"not_found", c.ret.message>>,
     suggestions |-> Take(c.ret.suggestions, 10)]

\* list_tables (lines 353-395)
list_tables_call(schema, F, ord) ==
    LET g == get_conn(CONNECTION_POOL, F)
        \* pg_class rows of the schema with relkind = 'r', in no fixed order
        names == SetToSeq(Range(QueryTables(schema)), ord)
    IN  IF ~g.ok
        THEN ToolOutcome(Unconnected, <<>>, CONTEXT_STATE, <<>>, {})
        ELSE IF "main" \in F
        THEN \* the row-estimate statement (line 374) is outside every try
             \* block: the exception leaves without conn.close()
             ToolOutcome(Outcome(METADATA_CACHE, g.pool, TRUE, <<>>,
                                 IF "meta" \in F THEN 1 ELSE 2, 1),
                         <<>>, CONTEXT_STATE, <<>>, {})
        ELSE ToolOutcome(
                Outcome(update_table_cache_from_results(METADATA_CACHE, schema,
                                                        names, ord),
                        release_conn(g.pool), FALSE, <<>>, 2, 1),
                [error |-> None, suggestions |-> <<>>, tables |-> names],
                CONTEXT_STATE, <<>>, {})

list_tables ==
    \E ord \in Orders, F \in FailSets({"connect", "meta", "main"}) :
      LET schema == input[1] IN
        Tool("list_tables", <<schema>>, list_tables_call(schema, F, ord))

\* the first lines of every table tool: conn = get_conn(), then
\* check_table_exists(schema, table, conn)
Checked(schema, table, F, ord) ==
    LET g == get_conn(CONNECTION_POOL, F)
        c == check_table_exists(METADATA_CACHE, g.pool, schema, table, TRUE, F, ord)
    IN  IF ~g.ok THEN Unconnected
        ELSE \* the connection is the tool's own
             [c EXCEPT !.acq = @ + 1]

\* the except branch of preview_rows and get_row_count (lines 772-787,
\* 842-856): the connection is closed, then the resolver is asked again on
\* a connection of its own
Failed(c, e, executed, interpolated) ==
    ToolOutcome([e EXCEPT !.rt = @ + c.rt + 1, !.acq = @ + c.acq],
                [error |-> <<"store", None>>,
                 suggestions |-> Take(e.ret.suggestions, 10)],
                CONTEXT_STATE, executed, interpolated)

Rechecked(c, schema, table, F, ord, executed, interpolated) ==
    Failed(c, check_table_exists(c.cache, release_conn(c.pool), schema, table,
                                 FALSE, F, ord),
           executed, interpolated)

\* a slip: the answer of check_table_exists is not looked at
preview_rows_unchecked(c, schema, table, F, ord) ==
    LET stmt == <<Statement("SELECT * FROM {schema}.{table} LIMIT %s",
                            {schema, table})>>
    IN  IF c.raised
        THEN ToolOutcome(c, <<>>, CONTEXT_STATE, <<>>, {})
        ELSE IF "main" \in F \/ ~RelationExists(schema, table)
        THEN Rechecked(c, schema, table, F, ord, stmt, {schema, table})
        ELSE ToolOutcome([c EXCEPT !.pool = release_conn(@), !.rt = @ + 1],
                         [error |-> None, suggestions |-> <<>>],
                         update_context(CONTEXT_STATE, schema, table),
                         stmt, {schema, table})

\* preview_rows (lines 732-787)
preview_rows_checked(c, schema, table, F, ord) ==
    LET stmt == <<Statement("SELECT * FROM {schema}.{table} LIMIT %s",
                            {schema, table})>>
    IN  IF c.raised
        THEN \* line 739 is outside every try block
             ToolOutcome(c, <<>>, CONTEXT_STATE, <<>>, {})
        ELSE IF ~c.ret.exists
        THEN ToolOutcome([c EXCEPT !.pool = release_conn(@)], NotFound(c),
                         CONTEXT_STATE, <<>>, {})
        ELSE IF "main" \in F \/ ~RelationExists(schema, table)
        THEN Rechecked(c, schema, table, F, ord, stmt, {schema, table})
        ELSE ToolOutcome([c EXCEPT !.pool = release_conn(@), !.rt = @ + 1],
                         [error |-> None, suggestions |-> <<>>],
                         update_context(CONTEXT_STATE, schema, table),
                         stmt, {schema, table})

preview_rows_call(schema, table, F, ord) ==
    preview_rows_checked(Checked(schema, table, F, ord), schema, table, F, ord)

preview_rows ==
    \E ord \in Orders,
       F \in FailSets({"connect", "tables", "across", "main"}) :
      LET schema == input[1]
          table == input[2] IN
        Tool("preview_rows", <<schema, table>>,
             preview_rows_call(schema, table, F, ord))

\* get_row_count (lines 795-856)
get_row_count_checked(c, schema, table, F, ord) ==
    LET stmt == <<Statement("SELECT COUNT(*) FROM {schema}.{table}",
                            {schema, table})>>
    IN  IF c.raised THEN ToolOutcome(c, <<>>, CONTEXT_STATE, <<>>, {})
        ELSE IF ~c.ret.exists
        THEN ToolOutcome([c EXCEPT !.pool = release_conn(@)], NotFound(c),
                         CONTEXT_STATE, <<>>, {})
        ELSE IF "main" \in F
        THEN \* the estimate statement (lines 816-822) raises
             Rechecked(c, schema, table, F, ord, <<>>, {})
        ELSE \* a failure of the exact count is caught (lines 825-834)
             ToolOutcome([c EXCEPT !.pool = release_conn(@), !.rt = @ + 2],
                         [error |-> None, suggestions |-> <<>>,
                          row_exact |-> IF "exact" \in F \/ ~RelationExists(schema, table)
                                        THEN None ELSE "count"],
                         update_context(CONTEXT_STATE, schema, table),
                         stmt, {schema, table})

get_row_count_call(schema, table, F, ord) ==
    get_row_count_checked(Checked(schema, table, F, ord), schema, table, F, ord)

get_row_count ==
    \E ord \in Orders,
       F \in FailSets({"connect", "tables", "across", "main", "exact"}) :
      LET schema == input[1]
          table == input[2] IN
        Tool("get_row_count", <<schema, table>>,
             get_row_count_call(schema, table, F, ord))

\* describe_table (lines 403-535)
describe_table_checked(c, schema, table, F) ==
    LET columns == Take(Columns(schema, table), 5)
        \* lines 504-512: one statement for each of the first five columns
        stmts == [i \in 1..Len(columns) |->
                    Statement("SELECT MIN({col}), MAX({col}), COUNT(DISTINCT {col}) FROM {schema}.{table}",
                              {columns[i][1], schema, table})]
    IN  IF c.raised THEN ToolOutcome(c, <<>>, CONTEXT_STATE, <<>>, {})
        ELSE IF ~c.ret.exists
        THEN ToolOutcome([c EXCEPT !.pool = release_conn(@)], NotFound(c),
                         CONTEXT_STATE, <<>>, {})
        ELSE IF "columns" \in F
        THEN \* lines 451-468
             ToolOutcome([c EXCEPT !.pool = release_conn(@), !.rt = @ + 2],
                         [error |-> <<"store", None>>, suggestions |-> <<>>],
                         CONTEXT_STATE, <<>>, {})
        ELSE \* failures of the metadata and sample statements are caught
             ToolOutcome([c EXCEPT !.pool = release_conn(@),
                                   !.rt = @ + 3 + Len(columns)],
                         [error |-> None, suggestions |-> <<>>],
                         update_context(CONTEXT_STATE, schema, table),
                         stmts,
                         {schema, table} \cup {columns[i][1] : i \in 1..Len(columns)})

describe_table_call(schema, table, F, ord) ==
    describe_table_checked(Checked(schema, table, F, ord), schema, table, F)

describe_table ==
    \E ord \in Orders,
       F \in FailSets({"connect", "tables", "across", "meta", "columns", "sample"}) :
      LET schema == input[1]
          table == input[2] IN
        Tool("describe_table", <<schema, table>>,
             describe_table_call(schema, table, F, ord))

\* deep_search (lines 1042-1138)
deep_search_checked(c, schema, table, F) ==
    LET text_columns == SelectSeq(Columns(schema, table),
                                  LAMBDA col : col[2] = "text")
        idents == {schema, table} \cup {text_columns[i][1] : i \in 1..Len(text_columns)}
        stmt == <<Statement("SELECT * FROM {schema}.{table} WHERE {conditions} LIMIT %s",
                            idents)>>
    IN  IF c.raised THEN ToolOutcome(c, <<>>, CONTEXT_STATE, <<>>, {})
        ELSE IF ~c.ret.exists
        THEN ToolOutcome([c EXCEPT !.pool = release_conn(@)], NotFound(c),
                         CONTEXT_STATE, <<>>, {})
        ELSE IF "columns" \in F
        THEN ToolOutcome([c EXCEPT !.pool = release_conn(@), !.rt = @ + 1],
                         [error |-> <<"store", None>>, suggestions |-> <<>>],
                         CONTEXT_STATE, <<>>, {})
        ELSE IF text_columns = <<>>
        THEN \* lines 1074-1083
             ToolOutcome([c EXCEPT !.pool = release_conn(@), !.rt = @ + 1],
                         [error |-> None, suggestions |-> <<>>],
                         CONTEXT_STATE, <<>>, {})
        ELSE IF "main" \in F \/ ~RelationExists(schema, table)
        THEN ToolOutcome([c EXCEPT !.pool = release_conn(@), !.rt = @ + 2],
                         [error |-> <<"store", None>>, suggestions |-> <<>>],
                         CONTEXT_STATE, stmt, idents)
        ELSE ToolOutcome([c EXCEPT !.pool = release_conn(@), !.rt = @ + 2],
                         [error |-> None, suggestions |-> <<>>],
                         update_context(CONTEXT_STATE, schema, table),
                         stmt, idents)

deep_search_call(schema, table, F, ord) ==
    deep_search_checked(Checked(schema, table, F, ord), schema, table, F)

deep_search ==
    \E ord \in Orders,
       F \in FailSets({"connect", "tables", "across", "columns", "main"}) :
      LET schema == input[1]
          table == input[2] IN
        Tool("deep_search", <<schema, table>>,
             deep_search_call(schema, table, F, ord))

\* smart_search (lines 936-1034); every statement takes the query as a
\* bound parameter
smart_search_call(F) ==
    LET g == get_conn(CONNECTION_POOL, F)
    IN  IF ~g.ok
        THEN ToolOutcome(Unconnected, <<>>, CONTEXT_STATE, <<>>, {})
        ELSE IF "main" \in F
        THEN \* lines 1016-1021: the except branch returns without
             \* cur.close() and conn.close()
             ToolOutcome(Outcome(METADATA_CACHE, g.pool, FALSE, <<>>, 1, 1),
                         [error |-> <<"store", None>>, suggestions |-> <<>>],
                         CONTEXT_STATE, <<>>, {})
        ELSE \* a failure of the description search is swallowed (line 1013)
             ToolOutcome(Outcome(METADATA_CACHE, release_conn(g.pool), FALSE,
                                 <<>>, 4, 1),
                         [error |-> None, suggestions |-> <<>>],
                         CONTEXT_STATE, <<>>, {})

smart_search ==
    \E F \in FailSets({"connect", "main", "meta"}) :
        Tool("smart_search", <<>>, smart_search_call(F))

\* a session of calls about one table: the caller holds <<schema, table>>
InitTools == InitWith(Schemas \X TableArgs)

\* the tools, one caller at a time
NextTools ==
    \/ list_tables
    \/ preview_rows
    \/ get_row_count
    \/ describe_table
    \/ deep_search
    \/ smart_search

SpecTools == InitTools /\ [][NextTools]_vars

\* ---- the four tools that check the table first, with the answer of
\* ---- check_table_exists kept on record beside the result

TableTools == {"describe_table", "preview_rows", "get_row_count", "deep_search"}

\* the rest of the tool after line 407, 739, 802 or 1050
AfterCheck(op, c, schema, table, F, ord) ==
    CASE op = "describe_table" -> describe_table_checked(c, schema, table, F)
      [] op = "preview_rows" -> preview_rows_checked(c, schema, table, F, ord)
      [] op = "get_row_count" -> get_row_count_checked(c, schema, table, F, ord)
      [] op = "deep_search" -> deep_search_checked(c, schema, table, F)

CheckedTool(op, arg, c, t) ==
    /\ METADATA_CACHE' = t.cache
    /\ CONNECTION_POOL' = t.pool
    /\ CONTEXT_STATE' = t.ctx
    /\ res' = [Res(op, arg, t) EXCEPT !.executed = t.executed,
                                      !.interpolated = t.interpolated,
                                      !.before = [raised |-> c.raised,
                                                  ret |-> c.ret]]
    /\ UNCHANGED <<now, store>>
    /\ UNCHANGED threadVars

TableTool ==
    \E op \in TableTools, ord \in Orders, F \in FailSets(FailPoints) :
        CheckedTool(op, input,
                    Checked(input[1], input[2], F, ord),
                    AfterCheck(op, Checked(input[1], input[2], F, ord),
                               input[1], input[2], F, ord))

NextGate ==
    \/ TableTool
    \/ list_tables
    \/ Tick

SpecGate == InitTools /\ [][NextGate]_vars

\* the schema cache under the clock
Next ==
    \/ list_schemas
    \/ Tick

Spec == Init /\ [][Next]_vars

\* the resolver under the clock
NextResolver ==
    \/ verify_table_exists
    \/ Tick

SpecResolver == Init /\ [][NextResolver]_vars

\* the resolver on a store whose schema collections_us is crowded
InitCrowded ==
    /\ now = CACHE_TTL_SECONDS
    /\ store = Catalog(Schemas,
                       {<<"collections_us", n, "BASE TABLE">> : n \in CrowdNames}
                       \cup {<<"gold", "Accounts", "BASE TABLE">>,
                              <<"gold", "loans", "BASE TABLE">>})
    /\ CONNECTION_POOL = [id |-> 0, used |-> 0]
    /\ METADATA_CACHE =
          [schemas |-> NoEntry, tables |-> <<>>, table_to_schema |-> <<>>]
    /\ CONTEXT_STATE = [last_schema |-> None, last_table |-> None]
    /\ res = NoRes
    /\ pc = [t \in Threads |-> "idle"]
    /\ POOL_LOCK = 0
    /\ input = <<>>
    /\ CACHE_LOCK = 0
    /\ frame = [t \in Threads |-> NoFrame]
    /\ connections = [c \in 1..max_conn |-> NewConnection]

SpecCrowded == InitCrowded /\ [][NextResolver]_vars

\* ------------------------------------------------------------------------
\* The table index under refills, forced refreshes and a changing store
\* ------------------------------------------------------------------------
\* a call of find_table_across_schemas(table) on a connection of its own
FindTableAcrossSchemas ==
    \E table \in TableArgs, ord \in Orders, F \in FailSets({"connect", "across"}) :
        LET o == find_table_across_schemas(METADATA_CACHE, CONNECTION_POOL,
                                           table, FALSE, F, ord)
        IN  /\ METADATA_CACHE' = o.cache
            /\ CONNECTION_POOL' = o.pool
            /\ res' = Res("find_table_across_schemas", <<table>>, o)
            /\ UNCHANGED <<now, store, CONTEXT_STATE>>
            /\ UNCHANGED threadVars

RECURSIVE RefreshTables(_, _, _)
\* line 197-198: for schema in schemas: get_cached_table_names(schema,
\* conn=conn, force_refresh=True); o is the outcome so far
RefreshTables(o, schemas, F) ==
    IF schemas = <<>> \/ o.raised THEN o
    ELSE LET n == get_cached_table_names(o.cache, o.pool, Head(schemas),
                                         FALSE, TRUE, F)
         IN  RefreshTables([n EXCEPT !.rt = @ + o.rt, !.acq = @ + o.acq],
                           Tail(schemas), F)

\* refresh_table_schema_map() (lines 195-198)
refresh_table_schema_map ==
    \E F \in FailSets({"connect", "schemas", "tables"}) :
        LET s == get_cached_schemas(METADATA_CACHE, CONNECTION_POOL, FALSE, FALSE, F)
            o == RefreshTables(s, s.ret, F)
        IN  /\ METADATA_CACHE' = o.cache
            /\ CONNECTION_POOL' = o.pool
            /\ res' = Res("refresh_table_schema_map", <<>>, [o EXCEPT !.ret = <<>>])
            /\ UNCHANGED <<now, store, CONTEXT_STATE>>
            /\ UNCHANGED threadVars

\* the store's owner drops a relation
DropTable ==
    \E r \in store.rel :
        /\ store' = [store EXCEPT !.rel = @ \ {r}]
        /\ UNCHANGED <<now, CONNECTION_POOL, METADATA_CACHE, CONTEXT_STATE, res>>
        /\ UNCHANGED threadVars

\* a store with "accounts" in both schemas
InitIndex ==
    /\ Init
    /\ store = Catalog(Schemas, {<<"collections_us", "accounts", "BASE TABLE">>,
                                 <<"collections_us", "loans", "BASE TABLE">>,
                                 <<"gold", "accounts", "BASE TABLE">>})

NextIndex ==
    \/ FindTableAcrossSchemas
    \/ refresh_table_schema_map
    \/ DropTable
    \/ Tick

SpecIndex == InitIndex /\ [][NextIndex]_vars

\* ------------------------------------------------------------------------
\* The cache helpers, line by line, on concurrent threads (lines 112-236)
\* ------------------------------------------------------------------------
\* pc[t] = "cN" : thread t is about to execute line N; "c113@179" is line 113
\* of _update_table_to_schema_map called from line 179, "c113@192" the same
\* line called from line 192.  The statements between two cache accesses
\* (get_conn, cur.execute, conn.close) are one step that leaves the pool as
\* it found it.
CacheThreads == 1..NumCacheThreads

lockFrame == <<now, store, CONNECTION_POOL, CONTEXT_STATE, res, POOL_LOCK, input,
               connections>>

\* the lines `with CACHE_LOCK:` and the first line of each block
Block(line) ==
    CASE line = "c121" -> "c122"
      [] line = "c146" -> "c147"
      [] line = "c153" -> "c154"
      [] line = "c177" -> "c178"
      [] line = "c113@179" -> "c114@179"
      [] line = "c187" -> "c188"
      [] line = "c113@192" -> "c114@192"
      [] line = "c209" -> "c210"

WithLines ==
    {"c121", "c146", "c153", "c177", "c113@179", "c187", "c113@192", "c209"}

\* the lines that read or write METADATA_CACHE
AccessLines == {Block(l) : l \in WithLines}

\* a slip: the block is entered without taking the lock
with_CACHE_LOCK_skipped(t) == CACHE_LOCK' = CACHE_LOCK

\* `with CACHE_LOCK:` threading.Lock is not reentrant and blocks while held
with_CACHE_LOCK(t) == CACHE_LOCK = 0 /\ CACHE_LOCK' = t

Goto(t, line) == pc' = [pc EXCEPT ![t] = line]

\* a thread calls get_cached_schemas()
CallGetCachedSchemas(t) ==
    /\ pc[t] = "idle"
    /\ Goto(t, "c121")
    /\ UNCHANGED <<METADATA_CACHE, CACHE_LOCK, frame>>
    /\ UNCHANGED lockFrame

\* a thread calls get_cached_table_names(schema)
CallGetCachedTableNames(t) ==
    /\ pc[t] = "idle"
    /\ Goto(t, "c153")
    /\ frame' = [frame EXCEPT ![t] = [NoFrame EXCEPT !.schema = "collections_us"]]
    /\ UNCHANGED <<METADATA_CACHE, CACHE_LOCK>>
    /\ UNCHANGED lockFrame

\* a thread calls find_table_across_schemas(table)
CallFindTableAcrossSchemas(t) ==
    /\ pc[t] = "idle"
    /\ Goto(t, "c209")
    /\ frame' = [frame EXCEPT ![t] = [NoFrame EXCEPT !.table = "accounts"]]
    /\ UNCHANGED <<METADATA_CACHE, CACHE_LOCK>>
    /\ UNCHANGED lockFrame

\* lines 113, 121, 146, 153, 177, 187, 209: with CACHE_LOCK
EnterBlock(t) ==
    /\ pc[t] \in WithLines
    /\ with_CACHE_LOCK(t)
    /\ Goto(t, Block(pc[t]))
    /\ UNCHANGED <<METADATA_CACHE, frame>>
    /\ UNCHANGED lockFrame

\* lines 122-124, 154-156, 210-212: the entry is read; a usable entry is
\* returned from inside the block, which releases the lock on the way out
ReadEntry(t) ==
    /\ pc[t] \in {"c122", "c154", "c210"}
    /\ LET hit ==
            CASE pc[t] = "c122" -> _is_cache_valid(METADATA_CACHE.schemas)
              [] pc[t] = "c154" ->
                    /\ frame[t].schema \in DOMAIN METADATA_CACHE.tables
                    /\ _is_cache_valid(METADATA_CACHE.tables[frame[t].schema])
              [] pc[t] = "c210" ->
                    DictGet(METADATA_CACHE.table_to_schema, frame[t].table, {}) # {}
            miss == CASE pc[t] = "c122" -> "c126"
                      [] pc[t] = "c154" -> "c158"
                      [] pc[t] = "c210" -> "c214"
       IN  /\ Goto(t, IF hit THEN "idle" ELSE miss)
           /\ frame' = [frame EXCEPT ![t] = IF hit THEN NoFrame ELSE @]
    /\ CACHE_LOCK' = 0
    /\ UNCHANGED METADATA_CACHE
    /\ UNCHANGED lockFrame

\* lines 126-144, 158-175, 214-231: the store is queried, outside the lock
QueryStore(t) ==
    /\ pc[t] \in {"c126", "c158", "c214"}
    /\ Goto(t, CASE pc[t] = "c126" -> "c146"
                 [] pc[t] = "c158" -> "c177"
                 [] pc[t] = "c214" -> "c233")
    /\ frame' = [frame EXCEPT ![t].rows =
                    CASE pc[t] = "c126" -> QuerySchemas
                      [] pc[t] = "c158" -> QueryTables(frame[t].schema)
                      [] pc[t] = "c214" -> QueryAcross(frame[t].table)]
    /\ UNCHANGED <<METADATA_CACHE, CACHE_LOCK>>
    /\ UNCHANGED lockFrame

\* line 147: METADATA_CACHE["schemas"] = {...}
WriteSchemas(t) ==
    /\ pc[t] = "c147"
    /\ METADATA_CACHE' = [METADATA_CACHE EXCEPT !.schemas =
                             [data |-> frame[t].rows, timestamp |-> now]]
    /\ CACHE_LOCK' = 0
    /\ Goto(t, "idle")
    /\ frame' = [frame EXCEPT ![t] = NoFrame]
    /\ UNCHANGED lockFrame

\* a slip: line 179 indented into the with block of line 177
WriteTables_nested(t) ==
    /\ pc[t] = "c178"
    /\ METADATA_CACHE' = [METADATA_CACHE EXCEPT !.tables =
                             DictSet(@, frame[t].schema,
                                     [data |-> frame[t].rows,
                                      timestamp |-> now])]
    /\ CACHE_LOCK' = CACHE_LOCK
    /\ Goto(t, "c113@179")
    /\ UNCHANGED frame
    /\ UNCHANGED lockFrame

\* line 178: METADATA_CACHE["tables"][schema] = {...}, then line 179
WriteTables(t) ==
    /\ pc[t] = "c178"
    /\ METADATA_CACHE' = [METADATA_CACHE EXCEPT !.tables =
                             DictSet(@, frame[t].schema,
                                     [data |-> frame[t].rows,
                                      timestamp |-> now])]
    /\ CACHE_LOCK' = 0
    /\ Goto(t, "c113@179")
    /\ UNCHANGED frame
    /\ UNCHANGED lockFrame

\* lines 114-117 called from line 179
WriteIndexOfSchema(t) ==
    /\ pc[t] = "c114@179"
    /\ METADATA_CACHE' = [METADATA_CACHE EXCEPT !.table_to_schema =
                             _update_table_to_schema_map(
                                 @, frame[t].schema, frame[t].rows)]
    /\ CACHE_LOCK' = 0
    /\ Goto(t, "idle")
    /\ frame' = [frame EXCEPT ![t] = NoFrame]
    /\ UNCHANGED lockFrame

\* lines 233-234: for schema_name, table_name in rows:
\* update_table_cache_from_results(schema_name, [table_name])
NextRow(t) ==
    /\ pc[t] = "c233"
    /\ Goto(t, IF frame[t].rows = <<>> THEN "idle" ELSE "c187")
    /\ frame' = [frame EXCEPT ![t] = IF frame[t].rows = <<>> THEN NoFrame ELSE @]
    /\ UNCHANGED <<METADATA_CACHE, CACHE_LOCK>>
    /\ UNCHANGED lockFrame

\* lines 188-191: the entry of the row's schema is read and replaced by the
\* union, then line 192
MergeRow(t) ==
    /\ pc[t] = "c188"
    /\ \E ord \in Orders :
         LET schema == Head(frame[t].rows)[1]
             entry == DictGet(METADATA_CACHE.tables, schema, NoEntry)
             existing == Range(entry.data) \cup {Head(frame[t].rows)[2]}
         IN  METADATA_CACHE' = [METADATA_CACHE EXCEPT !.tables =
                                  DictSet(@, schema,
                                          [data |-> SetToSeq(existing, ord),
                                           timestamp |-> now])]
    /\ CACHE_LOCK' = 0
    /\ Goto(t, "c113@192")
    /\ UNCHANGED frame
    /\ UNCHANGED lockFrame

\* lines 114-117 called from line 192, then the next row
WriteIndexOfRow(t) ==
    /\ pc[t] = "c114@192"
    /\ METADATA_CACHE' = [METADATA_CACHE EXCEPT !.table_to_schema =
                             _update_table_to_schema_map(
                                 @, Head(frame[t].rows)[1],
                                 <<Head(frame[t].rows)[2]>>)]
    /\ CACHE_LOCK' = 0
    /\ Goto(t, "c233")
    /\ frame' = [frame EXCEPT ![t].rows = Tail(@)]
    /\ UNCHANGED lockFrame

NextLock ==
    \E t \in CacheThreads :
        \/ CallGetCachedSchemas(t)
        \/ CallGetCachedTableNames(t)
        \/ CallFindTableAcrossSchemas(t)
        \/ EnterBlock(t)
        \/ ReadEntry(t)
        \/ QueryStore(t)
        \/ WriteSchemas(t)
        \/ WriteTables(t)
        \/ WriteIndexOfSchema(t)
        \/ NextRow(t)
        \/ MergeRow(t)
        \/ WriteIndexOfRow(t)

SpecLock == InitIndex /\ [][NextLock]_vars

\* ---- the three refilling helpers called on their own, with queries that
\* ---- can fail

\* get_cached_table_names(schema) called without a connection
GetCachedTableNames ==
    \E schema \in Schemas, F \in FailSets({"connect", "tables"}) :
        LET o == get_cached_table_names(METADATA_CACHE, CONNECTION_POOL,
                                        schema, FALSE, FALSE, F)
        IN  /\ METADATA_CACHE' = o.cache
            /\ CONNECTION_POOL' = o.pool
            /\ res' = [Res("get_cached_table_names", <<schema>>, o) EXCEPT
                          !.before = DictGet(METADATA_CACHE.tables, schema, NoEntry),
                          !.at = now]
            /\ UNCHANGED <<now, store, CONTEXT_STATE>>
            /\ UNCHANGED threadVars

NextHelpers ==
    \/ list_schemas
    \/ GetCachedTableNames
    \/ FindTableAcrossSchemas
    \/ Tick

SpecHelpers == InitIndex /\ [][NextHelpers]_vars

\* ---- refills racing with a store that changes between their queries

NextRefill ==
    \/ \E t \in CacheThreads :
          \/ CallGetCachedSchemas(t)
          \/ CallGetCachedTableNames(t)
          \/ EnterBlock(t)
          \/ ReadEntry(t)
          \/ QueryStore(t)
          \/ WriteSchemas(t)
          \/ WriteTables(t)
          \/ WriteIndexOfSchema(t)
    \/ DropTable
    \/ Tick

SpecRefill == InitIndex /\ [][NextRefill]_vars

\* ------------------------------------------------------------------------
\* get_conn and release_conn, line by line, on concurrent threads
\* ------------------------------------------------------------------------
poolFrame == <<now, store, METADATA_CACHE, CONTEXT_STATE, res, input,
              CACHE_LOCK, frame, connections>>

\* a thread calls get_conn
CallGetConn(t) ==
    /\ pc[t] \in {"idle", "PoolError", "ConnectError"}
    /\ pc' = [pc EXCEPT ![t] = "l94"]
    /\ UNCHANGED <<CONNECTION_POOL, POOL_LOCK>>
    /\ UNCHANGED poolFrame

\* line 94: if CONNECTION_POOL is None (read without the lock)
CheckPool(t) ==
    /\ pc[t] = "l94"
    /\ pc' = [pc EXCEPT ![t] = IF CONNECTION_POOL.id = 0 THEN "l52" ELSE "l96"]
    /\ UNCHANGED <<CONNECTION_POOL, POOL_LOCK>>
    /\ UNCHANGED poolFrame

\* line 52: with POOL_LOCK
LockPool(t) ==
    /\ pc[t] = "l52"
    /\ POOL_LOCK = 0
    /\ POOL_LOCK' = t
    /\ pc' = [pc EXCEPT ![t] = "l53"]
    /\ UNCHANGED CONNECTION_POOL
    /\ UNCHANGED poolFrame

\* lines 53-64 and the end of the with block: the pool is built if it is
\* still None, and the lock is released
BuildPool(t) ==
    /\ pc[t] = "l53"
    /\ POOL_LOCK = t
    /\ CONNECTION_POOL' = init_connection_pool(CONNECTION_POOL)
    /\ POOL_LOCK' = 0
    /\ pc' = [pc EXCEPT ![t] = "l96"]
    /\ UNCHANGED poolFrame

\* lines 56-64 raise (the database cannot be reached): the with block
\* releases the lock, CONNECTION_POOL stays None, get_conn raises
BuildPoolFails(t) ==
    /\ pc[t] = "l53"
    /\ POOL_LOCK = t
    /\ CONNECTION_POOL.id = 0
    /\ POOL_LOCK' = 0
    /\ pc' = [pc EXCEPT ![t] = "ConnectError"]
    /\ UNCHANGED CONNECTION_POOL
    /\ UNCHANGED poolFrame

\* lines 96-98: raw = CONNECTION_POOL.getconn()
GetConn(t) ==
    /\ pc[t] = "l96"
    /\ LET g == getconn(CONNECTION_POOL)
       IN  /\ CONNECTION_POOL' = g.pool
           /\ pc' = [pc EXCEPT ![t] = IF g.ok THEN "held" ELSE "PoolError"]
    /\ UNCHANGED POOL_LOCK
    /\ UNCHANGED poolFrame

\* PooledConnection.close() -> release_conn (lines 67-78, 88-90)
ReleaseConn(t) ==
    /\ pc[t] = "held"
    /\ CONNECTION_POOL' = release_conn(CONNECTION_POOL)
    /\ pc' = [pc EXCEPT ![t] = "idle"]
    /\ UNCHANGED POOL_LOCK
    /\ UNCHANGED poolFrame

NextPool ==
    \E t \in Threads :
        \/ CallGetConn(t)
        \/ CheckPool(t)
        \/ LockPool(t)
        \/ BuildPool(t)
        \/ BuildPoolFails(t)
        \/ GetConn(t)
        \/ ReleaseConn(t)

SpecPool == Init /\ [][NextPool]_vars

\* ---- the cache helpers together with the pool: on a miss the helper is
\* ---- called without a connection, takes one with get_conn (lines 128,
\* ---- 160, 216), queries and closes it before it stores the result

QueryLines == {"c126", "c158", "c214"}
PoolLines == {"l94", "l52", "l53", "l96", "held"}

\* the line after the query of the helper that thread t is in
AfterQuery(t) ==
    CASE frame[t].schema # None -> "c177"
      [] frame[t].table # None -> "c233"
      [] OTHER -> "c146"

\* lines 127-128, 159-160, 215-216: conn = get_conn()
ConnectForQuery(t) ==
    /\ pc[t] \in QueryLines
    /\ Goto(t, "l94")
    /\ UNCHANGED <<CONNECTION_POOL, POOL_LOCK>>
    /\ UNCHANGED poolFrame

\* lines 131-144, 163-175, 219-231: the query runs on the borrowed
\* connection and conn.close() returns it to the pool
ExecuteQuery(t) ==
    /\ pc[t] = "held"
    /\ frame' = [frame EXCEPT ![t].rows =
                    CASE AfterQuery(t) = "c146" -> QuerySchemas
                      [] AfterQuery(t) = "c177" -> QueryTables(frame[t].schema)
                      [] AfterQuery(t) = "c233" -> QueryAcross(frame[t].table)]
    /\ CONNECTION_POOL' = release_conn(CONNECTION_POOL)
    /\ Goto(t, AfterQuery(t))
    /\ UNCHANGED <<now, store, METADATA_CACHE, CONTEXT_STATE, res, POOL_LOCK,
                   input, CACHE_LOCK, connections>>

\* the query raises: none of the helpers catches it, the connection is not
\* closed and the helper is left
QueryRaises(t) ==
    /\ pc[t] = "held"
    /\ Goto(t, "idle")
    /\ frame' = [frame EXCEPT ![t] = NoFrame]
    /\ UNCHANGED <<now, store, CONNECTION_POOL, METADATA_CACHE, CONTEXT_STATE,
                   res, POOL_LOCK, input, CACHE_LOCK, connections>>

\* get_conn raised: the helper is left
ConnectRaises(t) ==
    /\ pc[t] \in {"ConnectError", "PoolError"}
    /\ Goto(t, "idle")
    /\ frame' = [frame EXCEPT ![t] = NoFrame]
    /\ UNCHANGED <<now, store, CONNECTION_POOL, METADATA_CACHE, CONTEXT_STATE,
                   res, POOL_LOCK, input, CACHE_LOCK, connections>>

NestStep(t) ==
    \/ CallGetCachedSchemas(t)
    \/ CallGetCachedTableNames(t)
    \/ CallFindTableAcrossSchemas(t)
    \/ EnterBlock(t)
    \/ ReadEntry(t)
    \/ ConnectForQuery(t)
    \/ CheckPool(t)
    \/ LockPool(t)
    \/ BuildPool(t)
    \/ BuildPoolFails(t)
    \/ GetConn(t)
    \/ ConnectRaises(t)
    \/ ExecuteQuery(t)
    \/ QueryRaises(t)
    \/ WriteSchemas(t)
    \/ WriteTables(t)
    \/ WriteIndexOfSchema(t)
    \/ NextRow(t)
    \/ MergeRow(t)
    \/ WriteIndexOfRow(t)

NextNest == \E t \in CacheThreads : NestStep(t)

SpecNest == InitIndex /\ [][NextNest]_vars


\* ------------------------------------------------------------------------
\* Ad-hoc statements about relations of the catalog: the store answers an
\* accepted text with rows, with an error, or with the error that names a
\* relation it lacks (lines 896-923), between calls of the resolver
\* ------------------------------------------------------------------------
AdhocText ==
    <<"s","e","l","e","c","t"," ","a"," ","f","r","o","m"," ","t">>

RunQuerySafe ==
    \E outcome \in ExecOutcomes, ord \in Orders,
       F \in FailSets({"connect", "tables", "across"}) :
        run_query_safe(input, outcome, F, ord)

InitAdhoc ==
    /\ InitWith({AdhocText})
    /\ store = Catalog(Schemas, {<<"collections_us", "accounts", "BASE TABLE">>,
                                 <<"collections_us", "loans", "BASE TABLE">>,
                                 <<"gold", "accounts", "BASE TABLE">>})

NextAdhoc == RunQuerySafe \/ Tick

SpecAdhoc == InitAdhoc /\ [][NextAdhoc]_vars


\* ------------------------------------------------------------------------
\* Connections one by one: threads borrow a connection with get_conn, run
\* statements that succeed or fail on it, roll back in their except
\* branches, and close it (lines 67-98)
\* ------------------------------------------------------------------------
connFrame == <<now, store, METADATA_CACHE, CONTEXT_STATE, pc, POOL_LOCK, input,
              CACHE_LOCK, frame>>

\* the connection thread t holds, 0 if it holds none
Held_by(t) ==
    IF \E c \in 1..max_conn : connections[c].owner = t
    THEN CHOOSE c \in 1..max_conn : connections[c].owner = t
    ELSE 0

Observed(op, t, c) == [NoRes EXCEPT !.op = op, !.arg = <<t, c>>]

\* conn = get_conn(): any connection of the pool that is not borrowed
AcquireConn(t) ==
    /\ Held_by(t) = 0
    /\ get_conn(CONNECTION_POOL, {}).ok
    /\ \E c \in 1..max_conn :
          /\ connections[c].owner = 0
          /\ connections' = [connections EXCEPT ![c] = Borrow(@, t)]
          /\ res' = Observed("get_conn", t, c)
    /\ CONNECTION_POOL' = get_conn(CONNECTION_POOL, {}).pool
    /\ UNCHANGED connFrame

\* cur.execute(...) on the thread's connection
ExecuteStatement(t) ==
    /\ Held_by(t) # 0
    /\ \E ok \in BOOLEAN :
          /\ connections' = [connections EXCEPT
                                ![Held_by(t)] = cursor_execute(@, ok)]
          /\ res' = Observed(IF ok THEN "execute" ELSE "execute_failed",
                             t, Held_by(t))
    /\ UNCHANGED CONNECTION_POOL
    /\ UNCHANGED connFrame

\* conn.rollback()
RollbackConn(t) ==
    /\ Held_by(t) # 0
    /\ connections' = [connections EXCEPT ![Held_by(t)] = rollback(@)]
    /\ res' = Observed("rollback", t, Held_by(t))
    /\ UNCHANGED CONNECTION_POOL
    /\ UNCHANGED connFrame

\* conn.close()
CloseConn(t) ==
    /\ Held_by(t) # 0
    /\ connections' = [connections EXCEPT ![Held_by(t)] = putconn(@)]
    /\ CONNECTION_POOL' = release_conn(CONNECTION_POOL)
    /\ res' = Observed("close", t, Held_by(t))
    /\ UNCHANGED connFrame

NextConn ==
    \E t \in Threads :
        \/ AcquireConn(t)
        \/ ExecuteStatement(t)
        \/ RollbackConn(t)
        \/ CloseConn(t)

SpecConn == Init /\ [][NextConn]_vars


\* ------------------------------------------------------------------------
\* Connections held by concurrent operations: each tool as the sequence of
\* pool events it goes through (get_conn, statements, conn.close()), with
\* the exits its exceptions take
\* ------------------------------------------------------------------------
HoldThreads == 1..NumCacheThreads

\* the thread has left its operation without closing the connection
Leaked == 0 - 1

\* one way on from a line: the event, the line after it, and the line an
\* exception of the event leads to
Edge(event, to, raise) == [event |-> event, to |-> to, raise |-> raise]

\* check_table_exists(schema, table, conn) at the top of a table tool: the
\* helpers answer from the cache or query on the caller's connection; an
\* exception of get_cached_table_names is caught (line 600), one of
\* find_table_across_schemas (line 622) leaves the tool
CheckedWith(found, missing) ==
    {Edge("skip", found, found), Edge("skip", missing, missing),
     Edge("query", found, missing), Edge("query", missing, missing),
     Edge("query", missing, "exit")}

\* the lines of the tools at which a connection is taken, used or returned
Flow(line) ==
    CASE line = "idle" ->
            {Edge("skip", l, l) : l \in {"s121", "r599", "l354", "d404",
                                         "p736", "g799", "q893", "m942", "e1047"}}
      \* list_schemas -> get_cached_schemas (lines 120-149)
      [] line = "s121" -> {Edge("skip", "exit", "exit"), Edge("skip", "s127", "s127")}
      [] line = "s127" -> {Edge("get_conn", "s130", "exit")}
      [] line = "s130" -> {Edge("query", "s141", "exit")}
      [] line = "s141" -> {Edge("close", "exit", "exit")}
      \* check_table_exists without a connection (lines 583-641):
      \* get_cached_table_names (lines 152-181), its exceptions caught
      [] line = "r599" -> {Edge("skip", "r604", "r604"), Edge("skip", "t159", "t159")}
      [] line = "t159" -> {Edge("get_conn", "t163", "exit")}
      [] line = "t163" -> {Edge("query", "t173", "exit")}
      [] line = "t173" -> {Edge("close", "r604", "r604")}
      [] line = "r604" -> {Edge("skip", "exit", "exit"), Edge("skip", "r622", "r622")}
      \* find_table_across_schemas (lines 208-236)
      [] line = "r622" -> {Edge("skip", "exit", "exit"), Edge("skip", "f217", "f217")}
      [] line = "f217" -> {Edge("get_conn", "f221", "exit")}
      [] line = "f221" -> {Edge("query", "f231", "exit")}
      [] line = "f231" -> {Edge("close", "exit", "exit")}
      \* list_tables (lines 353-395)
      [] line = "l354" -> {Edge("get_conn", "l357", "exit")}
      [] line = "l357" -> {Edge("query", "l374", "l374")}
      [] line = "l374" -> {Edge("query", "l393", "exit")}
      [] line = "l393" -> {Edge("close", "exit", "exit")}
      \* describe_table (lines 403-535)
      [] line = "d404" -> {Edge("get_conn", "d407", "exit")}
      [] line = "d407" -> CheckedWith("d422", "d409")
      [] line = "d409" -> {Edge("close", "exit", "exit")}
      [] line = "d422" -> {Edge("query", "d441", "d441")}
      [] line = "d441" -> {Edge("query", "d471", "d458")}
      [] line = "d458" -> {Edge("close", "exit", "exit")}
      [] line = "d471" -> {Edge("query", "d523", "d523")}
      [] line = "d523" -> {Edge("close", "exit", "exit")}
      \* preview_rows (lines 732-787)
      [] line = "p736" -> {Edge("get_conn", "p739", "exit")}
      [] line = "p739" -> CheckedWith("p750", "p741")
      [] line = "p741" -> {Edge("close", "exit", "exit")}
      [] line = "p750" -> {Edge("query", "p761", "p778")}
      [] line = "p761" -> {Edge("close", "exit", "exit")}
      [] line = "p778" -> {Edge("close", "r599", "r599")}
      \* get_row_count (lines 795-856)
      [] line = "g799" -> {Edge("get_conn", "g802", "exit")}
      [] line = "g802" -> CheckedWith("g816", "g804")
      [] line = "g804" -> {Edge("close", "exit", "exit")}
      [] line = "g816" -> {Edge("query", "g826", "g848")}
      [] line = "g826" -> {Edge("query", "g837", "g837")}
      [] line = "g837" -> {Edge("close", "exit", "exit")}
      [] line = "g848" -> {Edge("close", "r599", "r599")}
      \* run_query_safe (lines 893-928)
      [] line = "q893" -> {Edge("get_conn", "q897", "exit")}
      [] line = "q897" -> {Edge("query", "q926", "q903")}
      [] line = "q903" -> {Edge("close", "r599", "r599"), Edge("close", "exit", "exit")}
      [] line = "q926" -> {Edge("close", "exit", "exit")}
      \* smart_search (lines 936-1034)
      [] line = "m942" -> {Edge("get_conn", "m950", "exit")}
      [] line = "m950" -> {Edge("query", "m1024", "exit")}
      [] line = "m1024" -> {Edge("close", "exit", "exit")}
      \* deep_search (lines 1042-1138)
      [] line = "e1047" -> {Edge("get_conn", "e1050", "exit")}
      [] line = "e1050" -> CheckedWith("e1062", "e1052")
      [] line = "e1052" -> {Edge("close", "exit", "exit")}
      [] line = "e1062" -> {Edge("query", "e1074", "e1137"),
                            Edge("query", "e1076", "e1137")}
      [] line = "e1076" -> {Edge("close", "exit", "exit")}
      [] line = "e1074" -> {Edge("query", "e1118", "e1137")}
      [] line = "e1118" -> {Edge("close", "exit", "exit")}
      [] line = "e1137" -> {Edge("close", "exit", "exit")}
      [] OTHER -> {}

\* the connections thread t has taken and not returned
HeldBy(t) == {c \in 1..max_conn : connections[c].owner = t}

holdFrame == <<now, store, METADATA_CACHE, CONTEXT_STATE, res, POOL_LOCK, input,
              CACHE_LOCK, frame>>

\* a line without a pool event
Skip(t, e) ==
    /\ e.event = "skip"
    /\ pc' = [pc EXCEPT ![t] = e.to]
    /\ UNCHANGED <<CONNECTION_POOL, connections>>

\* conn = get_conn(): a connection of the pool, or PoolError when all are
\* out, or an error of the store
TakeConn(t, e) ==
    /\ e.event = "get_conn"
    /\ \/ /\ get_conn(CONNECTION_POOL, {}).ok
          /\ \E c \in 1..max_conn :
                /\ connections[c].owner = 0
                /\ connections' = [connections EXCEPT ![c] = Borrow(@, t)]
          /\ CONNECTION_POOL' = get_conn(CONNECTION_POOL, {}).pool
          /\ pc' = [pc EXCEPT ![t] = e.to]
       \/ /\ pc' = [pc EXCEPT ![t] = e.raise]
          /\ UNCHANGED <<CONNECTION_POOL, connections>>

\* a statement on the thread's connection: it returns or raises
Query(t, e) ==
    /\ e.event = "query"
    /\ HeldBy(t) # {}
    /\ \E ok \in BOOLEAN :
          /\ connections' = [c \in 1..max_conn |->
                                IF c \in HeldBy(t)
                                THEN cursor_execute(connections[c], ok)
                                ELSE connections[c]]
          /\ pc' = [pc EXCEPT ![t] = IF ok THEN e.to ELSE e.raise]
    /\ UNCHANGED CONNECTION_POOL

\* conn.close(): the connection the variable conn names goes back
CloseHeld(t, e) ==
    /\ e.event = "close"
    /\ \E c \in HeldBy(t) :
          /\ connections' = [connections EXCEPT ![c] = putconn(@)]
          /\ CONNECTION_POOL' = release_conn(CONNECTION_POOL)
    /\ pc' = [pc EXCEPT ![t] = e.to]

\* the tool returns or raises to its caller; a connection it has not closed
\* stays out of the pool
Return(t) ==
    /\ pc[t] = "exit"
    /\ pc' = [pc EXCEPT ![t] = "idle"]
    /\ connections' = [c \in 1..max_conn |->
                          IF c \in HeldBy(t)
                          THEN [connections[c] EXCEPT !.owner = Leaked]
                          ELSE connections[c]]
    /\ UNCHANGED CONNECTION_POOL

NextHold ==
    \E t \in HoldThreads :
        /\ \/ \E e \in Flow(pc[t]) :
                 Skip(t, e) \/ TakeConn(t, e) \/ Query(t, e) \/ CloseHeld(t, e)
           \/ Return(t)
        /\ UNCHANGED holdFrame

\* the pool events of a tool do not depend on what the catalog holds
InitHold == Init /\ store = Catalog(Schemas, {})

SpecHold == InitHold /\ [][NextHold]_vars

\* ------------------------------------------------------------------------
\* The session context on its own: update_context called with every
\* combination of provided and absent arguments (lines 201-205)
\* ------------------------------------------------------------------------
ContextArgs == (Schemas \cup {None, ""}) \X (Names \cup {None, ""})

UpdateContext ==
    \E a \in ContextArgs :
        /\ CONTEXT_STATE' = update_context(CONTEXT_STATE, a[1], a[2])
        /\ res' = [NoRes EXCEPT !.op = "update_context", !.arg = a]
        /\ UNCHANGED <<now, store, CONNECTION_POOL, METADATA_CACHE>>
        /\ UNCHANGED threadVars

NextContext == UpdateContext

SpecContext == Init /\ [][NextContext]_vars

\* ---- update_context line by line, called from several threads; the
\* ---- function takes no lock

mixFrame == <<now, store, CONNECTION_POOL, METADATA_CACHE, res, POOL_LOCK,
              input, CACHE_LOCK, connections>>

\* line 201: a thread calls update_context(schema, table)
CallUpdateContext(t) ==
    /\ pc[t] \in {"idle", "u206"}
    /\ \E a \in ContextArgs :
         frame' = [frame EXCEPT ![t] = [NoFrame EXCEPT !.schema = a[1],
                                                       !.table = a[2]]]
    /\ Goto(t, "u202")
    /\ UNCHANGED CONTEXT_STATE
    /\ UNCHANGED mixFrame

\* lines 202-203: if schema: CONTEXT_STATE["last_schema"] = schema
WriteLastSchema(t) ==
    /\ pc[t] = "u202"
    /\ CONTEXT_STATE' = update_context(CONTEXT_STATE, frame[t].schema, None)
    /\ Goto(t, "u204")
    /\ UNCHANGED frame
    /\ UNCHANGED mixFrame

\* lines 204-205: if table: CONTEXT_STATE["last_table"] = table; the call
\* returns and its arguments stay on record until the thread calls again
WriteLastTable(t) ==
    /\ pc[t] = "u204"
    /\ CONTEXT_STATE' = update_context(CONTEXT_STATE, None, frame[t].table)
    /\ Goto(t, "u206")
    /\ UNCHANGED frame
    /\ UNCHANGED mixFrame

NextMix ==
    \E t \in CacheThreads :
        \/ CallUpdateContext(t)
        \/ WriteLastSchema(t)
        \/ WriteLastTable(t)

SpecMix == Init /\ [][NextMix]_vars

\* ------------------------------------------------------------------------
\* Properties
\* ------------------------------------------------------------------------
\* the age, at the time of the call, of the entry the call found
AgeAtCall == res.at - res.before.timestamp

C9_ResolverExact ==
    (res.op = "verify_table_exists" /\ ~res.raised) =>
        /\ (res.arg[2] \in Range(res.listing)) =>
              /\ res.ret.exists
              /\ res.ret.actual_schema = res.arg[1]
              /\ res.ret.suggestions = <<>>
        /\ res.ret.exists => res.ret.suggestions = <<>>

\* C9 witness: a listed table was resolved
C9_Witness ==
    /\ res.op = "verify_table_exists"
    /\ ~res.raised
    /\ res.arg[2] \in Range(res.listing)
    /\ res.ret.exists

\* C10: check_table_exists never propagates a store error: every call
\* returns a structured result, whichever store query or connection
\* acquisition fails.
C10_NeverRaises ==
    res.op = "verify_table_exists" => ~res.raised

\* C7 as stated: an acquire made while max connections are outstanding waits
\* for a release and then succeeds; no get_conn call ends in a pool error.
C7_AcquireNeverFails ==
    \A t \in Threads : pc[t] # "PoolError"

\* C8: under every interleaving of concurrent first get_conn calls the pool
\* is built exactly once: CONNECTION_POOL is None or the first pool object
\* built, never a second one.
C8_PoolBuiltOnce ==
    /\ CONNECTION_POOL.id \in {0, 1}
    /\ (\E t \in Threads : pc[t] \in {"l96", "held", "PoolError"})
          => CONNECTION_POOL.id = 1

\* C8 witness: the pool exists while another thread that saw None at line 94
\* is still on its way into init_connection_pool
C8_Witness ==
    /\ CONNECTION_POOL.id = 1
    /\ \E t \in Threads : pc[t] \in {"l52", "l53"}
    /\ \E t \in Threads : pc[t] = "held"

\* the text after trim and lower-casing, as the guard inspects it
Normalized(text) == Strip(Lower(text))

\* C2 as stated: every text run_query_safe sends to the store begins with
\* 'select', contains no forbidden keyword and matches no blocked pattern;
\* a refused text is answered with an error, without a connection and
\* without anything being executed.
C2_ExecutedTextIsClean ==
    res.op = "run_query_safe" =>
        /\ \A i \in 1..Len(res.executed) :
              /\ StartsWith(Normalized(res.executed[i]), <<"s","e","l","e","c","t">>)
              /\ FirstForbidden(Normalized(res.executed[i])) = 0
              /\ ~BLOCK_PATTERNS(Normalized(res.executed[i]))
        /\ GuardVerdict(res.arg)[1] # "accepted" =>
              /\ res.ret.error[1] \in {"only_select", "not_allowed", "blocked"}
              /\ res.acq = 0
              /\ res.rt = 0
              /\ res.executed = <<>>

\* a LIMIT clause with a row count: the word limit, whitespace, a digit
HasLimitClause(text) ==
    LET s == Lower(text)
    IN  \E i \in 1..(Len(s) - 6) :
            /\ SubSeq(s, i, i + 4) = <<"l","i","m","i","t">>
            /\ (i = 1 \/ s[i - 1] \notin WordChars)
            /\ s[i + 5] \in Whitespace
            /\ \E j \in (i + 6)..Len(s) :
                  /\ s[j] \in Digits
                  /\ \A k \in (i + 5)..(j - 1) : s[k] \in Whitespace

\* C3 as stated: every text run_query_safe executes contains a LIMIT clause
\* that caps its result size.
C3_ExecutedTextHasLimit ==
    res.op = "run_query_safe" =>
        \A i \in 1..Len(res.executed) : HasLimitClause(res.executed[i])

\* the format YYYY-MM: four digits, a dash, two digits, and nothing else
IsYearMonth(month) ==
    /\ Len(month) = 7
    /\ \A i \in {1, 2, 3, 4, 6, 7} : month[i] \in Digits
    /\ month[5] = "-"

\* C4 as stated: portfolio_query answers with an error, without building a
\* statement and without acquiring a connection, whenever group_by is empty
\* or holds a name outside the allowed dimensions, metrics is empty or holds
\* a name outside the allowed metrics, or from_month / to_month is not of the
\* form YYYY-MM.
C4_InvalidSpecRejected ==
    (/\ res.op = "portfolio_query"
     /\ \/ res.arg.group_by = <<>>
        \/ \E i \in 1..Len(res.arg.group_by) :
              res.arg.group_by[i] \notin Range(allowed_group_by)
        \/ res.arg.metrics = <<>>
        \/ \E i \in 1..Len(res.arg.metrics) :
              res.arg.metrics[i] \notin Range(allowed_metrics)
        \/ ~IsYearMonth(res.arg.from_month)
        \/ ~IsYearMonth(res.arg.to_month))
    => /\ res.ret.error[1] = "invalid"
       /\ res.ret.sql = NoSql
       /\ res.executed = <<>>
       /\ res.acq = 0

\* C1 as stated: every operation that acquires a pooled connection has
\* returned it on every exit path, so after any sequence of completed
\* operations no connection is borrowed.
C1_NothingBorrowedAfterCalls ==
    res.op # "none" => Borrowed(CONNECTION_POOL) = 0

\* the names the source declares as fixed lists: the dimensions, the
\* metrics, and the one extra filter key of line 1761
DeclaredNames ==
    Range(allowed_group_by) \cup Range(allowed_metrics) \cup {"product_name"}

\* C5 as stated: every identifier formatted into an executed statement was
\* validated against a closed, statically declared list; no name supplied
\* by the caller reaches statement text otherwise.
C5_OnlyDeclaredNamesInText ==
    res.interpolated \subseteq DeclaredNames

\* C11 as stated: the metadata cache swallows store errors: when the store
\* query of a schema refill fails, the call returns an empty or previously
\* cached list instead of raising, so list_schemas never fails.
C11_ListSchemasNeverRaises ==
    res.op = "list_schemas" => ~res.raised

\* no entry occurs twice in the sequence
NoDuplicates(s) == \A i, j \in 1..Len(s) : s[i] = s[j] => i = j

\* C12 as stated: in every resolution result with exists = false the
\* suggestions hold no entry twice and number at most 15, however many
\* same-schema candidates and elsewhere-found matches there are.
C12_SuggestionsBounded ==
    (res.op = "verify_table_exists" /\ ~res.raised /\ ~res.ret.exists)
        => /\ NoDuplicates(res.ret.suggestions)
           /\ Len(res.ret.suggestions) <= 15

\* C13 as stated: every entry check_table_exists(schema, table) reports as
\* found elsewhere names a schema other than the queried one.
C13_ElsewhereIsAnotherSchema ==
    (res.op = "verify_table_exists" /\ ~res.raised)
        => \A i \in 1..Len(res.ret.similar_tables) :
              res.ret.similar_tables[i].schema # res.arg[1]

\* the same-schema candidates of a result: its suggestions without the
\* elsewhere-found matches appended after them
Candidates ==
    LET k == Len(res.ret.suggestions) - Len(res.ret.similar_tables)
    IN  [i \in 1..k |-> res.ret.suggestions[i][2]]

\* the known names that contain the queried name, letter case ignored
Containing ==
    {n \in Range(res.listing) :
        Contains(Lower(Chars(n)), Lower(Chars(res.arg[2])))}

\* the table list was fetched and the table is not a member of it
NotListed ==
    /\ res.op = "verify_table_exists"
    /\ ~res.raised
    /\ ~res.ret.exists
    /\ res.ret.message # "error"

\* similarity(a, table) >= similarity(b, table), table the queried name
AtLeastAsSimilar(a, b) ==
    similarity(a, res.arg[2])[1] * similarity(b, res.arg[2])[2]
        >= similarity(b, res.arg[2])[1] * similarity(a, res.arg[2])[2]

\* C14: when the table is not a member of the schema's list, the
\* same-schema candidates are exactly the known names that contain the
\* queried name as a case-insensitive substring; if there is none, they are
\* the min(5, number of known names) known names most similar to the
\* queried name, in descending order of similarity.
C14_Candidates ==
    NotListed =>
        IF Containing # {}
        THEN /\ Range(Candidates) = Containing
             /\ Len(Candidates) = Cardinality(Containing)
        ELSE /\ Len(Candidates) = Min(5, Len(res.listing))
             /\ Range(Candidates) \subseteq Range(res.listing)
             /\ NoDuplicates(Candidates)
             /\ \A i, j \in 1..Len(Candidates) :
                   i < j => AtLeastAsSimilar(Candidates[i], Candidates[j])
             /\ \A n \in Range(res.listing) \ Range(Candidates) :
                   \A i \in 1..Len(Candidates) :
                       AtLeastAsSimilar(Candidates[i], n)

\* C14 witness: more than five known names, none contains the queried name,
\* and the five most similar were suggested
C14_Witness ==
    /\ NotListed
    /\ Containing = {}
    /\ Len(res.listing) > 5
    /\ Len(Candidates) = 5

\* C15: in a result with exists = false all same-schema candidates precede
\* all elsewhere-found matches in suggestions, and whenever there is an
\* elsewhere-found match the message is the one that names the other
\* schema, also when similar names of the same schema are present.
C15_OrderAndMessage ==
    NotListed =>
        LET suggestions == res.ret.suggestions
            elsewhere == res.ret.similar_tables
            k == Len(suggestions) - Len(elsewhere)
        IN  /\ k >= 0
            /\ \A i \in 1..k :
                  /\ suggestions[i][1] = res.arg[1]
                  /\ suggestions[i][2] \in Range(res.listing)
            /\ \A i \in 1..Len(elsewhere) :
                  /\ suggestions[k + i] = <<elsewhere[i].schema, elsewhere[i].table>>
                  /\ elsewhere[i].table = res.arg[2]
            /\ elsewhere # <<>> => res.ret.message = "elsewhere"
            /\ elsewhere = <<>> =>
                  res.ret.message = IF k > 0 THEN "similar" ELSE "missing"

\* C15 witness: a similar name in the queried schema and a match in
\* another schema, reported together
C15_Witness ==
    /\ NotListed
    /\ Len(res.ret.similar_tables) > 0
    /\ Len(res.ret.suggestions) > Len(res.ret.similar_tables)
    /\ res.ret.similar_tables[1].schema # res.arg[1]
    /\ res.ret.message = "elsewhere"

\* the step is a call of find_table_across_schemas
IsFindStep ==
    /\ res'.op = "find_table_across_schemas"
    /\ now' = now
    /\ store' = store

\* C16: find_table_across_schemas(table) issues no store query and acquires
\* no connection when the table index has a non-empty entry for the table;
\* only on a miss does it query the store, and it then merges every row
\* returned into the cache, so that the index has an entry for a table that
\* was found and a repeated call issues no store query.
C16_IndexFirst ==
    [][IsFindStep =>
        LET table == res'.arg[1]
            before == DictGet(METADATA_CACHE.table_to_schema, table, {})
            tables == METADATA_CACHE'.tables
            index == METADATA_CACHE'.table_to_schema
        IN  IF before # {}
            THEN /\ res'.rt = 0
                 /\ res'.acq = 0
                 /\ ~res'.raised
                 /\ {res'.ret[i].schema : i \in 1..Len(res'.ret)} = before
                 /\ METADATA_CACHE' = METADATA_CACHE
            ELSE /\ res'.rt = (IF res'.acq = 1 THEN 1 ELSE 0)
                 /\ res'.acq = 0 => res'.raised
                 /\ ~res'.raised =>
                       /\ \A i \in 1..Len(res'.ret) :
                             /\ res'.ret[i].table = table
                             /\ \E k \in Kinds :
                                   <<res'.ret[i].schema, table, k>> \in store.rel
                             /\ res'.ret[i].schema \in DOMAIN tables
                             /\ table \in Range(tables[res'.ret[i].schema].data)
                             /\ table \in DOMAIN index
                             /\ res'.ret[i].schema \in index[table]
                       /\ \A r \in store.rel :
                             r[2] = table =>
                                \E i \in 1..Len(res'.ret) : res'.ret[i].schema = r[1]
    ]_vars

\* C16 witness: a call for a table of two schemas answered from the index
C16_Witness ==
    /\ res.op = "find_table_across_schemas"
    /\ ~res.raised
    /\ res.rt = 0
    /\ res.acq = 0
    /\ Len(res.ret) = 2
    /\ res.arg[1] \in DOMAIN METADATA_CACHE.table_to_schema

\* the step is a list_tables call that returned
IsListTablesStep ==
    /\ res'.op = "list_tables"
    /\ ~res'.raised
    /\ now' = now
    /\ store' = store

\* the names held for a schema, none if there is no entry
Held(cache, schema) ==
    IF schema \in DOMAIN cache.tables THEN Range(cache.tables[schema].data) ELSE {}

\* C17: update_table_cache_from_results(schema, names) is an additive
\* union: afterwards tables[schema].data holds every name it held before
\* and every name in names, the index records schema for every name in
\* names, and with an empty names argument the whole cache is unchanged.
\* list_tables calls it with the names the store returned.
C17_AdditiveUnion ==
    [][IsListTablesStep =>
        LET schema == res'.arg[1]
            names == Range(res'.ret.tables)
            index == METADATA_CACHE'.table_to_schema
        IN  IF names = {}
            THEN METADATA_CACHE' = METADATA_CACHE
            ELSE /\ Held(METADATA_CACHE', schema) = Held(METADATA_CACHE, schema) \cup names
                 /\ NoDuplicates(METADATA_CACHE'.tables[schema].data)
                 /\ \A n \in names : n \in DOMAIN index /\ schema \in index[n]
                 \* nothing else is taken away
                 /\ \A s \in DOMAIN METADATA_CACHE.tables :
                       s # schema =>
                          /\ s \in DOMAIN METADATA_CACHE'.tables
                          /\ METADATA_CACHE'.tables[s] = METADATA_CACHE.tables[s]
                 /\ \A n \in DOMAIN METADATA_CACHE.table_to_schema :
                       /\ n \in DOMAIN index
                       /\ METADATA_CACHE.table_to_schema[n] \subseteq index[n]
                 /\ METADATA_CACHE'.schemas = METADATA_CACHE.schemas
    ]_vars

\* C17 witness: after list_tables the entry of the schema holds a name the
\* store did not return, kept from before
C17_Witness ==
    /\ res.op = "list_tables"
    /\ ~res.raised
    /\ res.ret.tables # <<>>
    /\ Held(METADATA_CACHE, res.arg[1]) \ Range(res.ret.tables) # {}

\* C18: the table index only grows: over every step, for every table name,
\* the schemas recorded in table_to_schema after the step include those
\* recorded before it; no expiry, refill or forced refresh removes a schema
\* or a table key.
C18_IndexOnlyGrows ==
    [][\A n \in DOMAIN METADATA_CACHE.table_to_schema :
          /\ n \in DOMAIN METADATA_CACHE'.table_to_schema
          /\ METADATA_CACHE.table_to_schema[n]
                \subseteq METADATA_CACHE'.table_to_schema[n]
    ]_vars

\* C18 witness: a forced refresh has refilled the list of a schema without a
\* table that was dropped, and the index still records the schema for it
C18_Witness ==
    /\ res.op = "refresh_table_schema_map"
    /\ ~res.raised
    /\ \E n \in DOMAIN METADATA_CACHE.table_to_schema :
          \E s \in METADATA_CACHE.table_to_schema[n] :
              /\ \A k \in Kinds : <<s, n, k>> \notin store.rel
              /\ s \in DOMAIN METADATA_CACHE.tables
              /\ METADATA_CACHE.tables[s].timestamp = now
              /\ n \notin Range(METADATA_CACHE.tables[s].data)

\* C19 as stated: a cache entry is valid exactly when now - fetchedAt < TTL,
\* whatever it holds: a call that finds an entry younger than TTL is served
\* from it, also when the entry holds an empty list, and a call that finds
\* an older entry is not.
C19_ValidByAgeOnly ==
    res.op = "list_schemas" =>
        (AgeAtCall < CACHE_TTL_SECONDS
            <=> (~res.raised /\ res.rt = 0 /\ res.acq = 0
                 /\ res.ret = res.before.data))

\* C20: every read and every write of the three cache structures by any
\* thread happens while that thread holds CACHE_LOCK.
C20_AccessUnderLock ==
    \A t \in CacheThreads : pc[t] \in AccessLines => CACHE_LOCK = t

\* C20 witness: a thread is about to write the table index under the lock
\* while another thread waits at a `with CACHE_LOCK` line
C20_Witness ==
    \E t, u \in CacheThreads :
        /\ t # u
        /\ pc[t] \in {"c114@179", "c114@192"}
        /\ CACHE_LOCK = t
        /\ pc[u] \in WithLines

\* the text LIMIT 200
Limit200 == <<"L","I","M","I","T"," ","2","0","0">>

\* a call of run_query_safe whose text passed the guard and was executed
AcceptedCall ==
    /\ res.op = "run_query_safe"
    /\ GuardVerdict(res.arg)[1] = "accepted"
    /\ res.executed # <<>>

\* C21 as stated: for every text the guard accepts, when the normalized text
\* holds no 'limit' the executed text is the caller's text without its
\* trailing terminator, followed by LIMIT 200, and it ends in LIMIT 200; when
\* it holds 'limit' the executed text is the caller's text.
C21_AsStated ==
    AcceptedCall =>
        IF Contains(Normalized(res.arg), <<"l","i","m","i","t">>)
        THEN res.executed = <<res.arg>>
        ELSE /\ res.executed = <<RStripSemi(res.arg) \o <<" ">> \o Limit200>>
             /\ EndsWith(res.executed[1], Limit200)

\* C21 amended: the appended text is ' LIMIT 200;', so the executed text ends
\* in LIMIT 200 followed by one terminator; what precedes it is the caller's
\* text, casing and content kept, without the ';' characters at its very end.
\* A text whose normalized form holds 'limit' is executed as given.
C21_LimitAppended ==
    AcceptedCall =>
        IF Contains(Normalized(res.arg), <<"l","i","m","i","t">>)
        THEN res.executed = <<res.arg>>
        ELSE /\ Len(res.executed) = 1
             /\ EndsWith(res.executed[1], <<" ">> \o Limit200 \o <<";">>)
             /\ SubSeq(res.executed[1], 1, Len(res.executed[1]) - 11)
                    = RStripSemi(res.arg)

\* an upper-case text with a trailing terminator and no 'limit' was executed
C21_Witness ==
    /\ AcceptedCall
    /\ ~Contains(Normalized(res.arg), <<"l","i","m","i","t">>)
    /\ res.arg # Lower(res.arg)
    /\ EndsWith(res.arg, <<";">>)
    /\ res.executed = <<RStripSemi(res.arg) \o <<" ">> \o Limit200 \o <<";">>>>

\* C22 as stated: when LIMIT 200 is appended to a text whose only ';' is a
\* trailing terminator, possibly followed by whitespace, the terminator is
\* stripped first: the executed text holds no ';' before the appended
\* LIMIT 200.
C22_TerminatorStripped ==
    (/\ AcceptedCall
     /\ ~Contains(Normalized(res.arg), <<"l","i","m","i","t">>)
     /\ EndsWith(Normalized(res.arg), <<";">>)
     /\ ~Contains(SubSeq(Normalized(res.arg), 1, Len(Normalized(res.arg)) - 1),
                  <<";">>))
    => \A i \in 1..Len(res.executed) :
          /\ EndsWith(res.executed[i], <<" ">> \o Limit200 \o <<";">>)
          /\ ~Contains(SubSeq(res.executed[i], 1, Len(res.executed[i]) - 11),
                       <<";">>)

\* the text select
Select == <<"s","e","l","e","c","t">>

\* some keyword of FORBIDDEN occurs in the text
HasForbidden(text) == \E i \in 1..Len(FORBIDDEN) : Contains(text, FORBIDDEN[i])

\* the reason a call of run_query_safe was answered with, "none" for rows
Reason == IF res.ret.error = None THEN "none" ELSE res.ret.error[1]

\* C23: the rules of the guard apply in order. A text whose normalized form
\* does not start with 'select' is refused as 'only SELECT queries allowed'
\* even when it holds a forbidden keyword or a blocked pattern; a text that
\* starts with 'select' and holds a forbidden keyword is refused for the
\* keyword even when it matches a blocked pattern.
C23_RulesInOrder ==
    res.op = "run_query_safe" =>
        /\ ~StartsWith(Normalized(res.arg), Select) => Reason = "only_select"
        /\ (StartsWith(Normalized(res.arg), Select) /\ HasForbidden(Normalized(res.arg)))
              => Reason = "not_allowed"

\* a text that starts with select, holds a forbidden keyword and matches a
\* blocked pattern was refused for the keyword
C23_Witness ==
    /\ res.op = "run_query_safe"
    /\ StartsWith(Normalized(res.arg), Select)
    /\ HasForbidden(Normalized(res.arg))
    /\ MatchesCommaWord(Normalized(res.arg))
    /\ Reason = "not_allowed"
    /\ res.executed = <<>>

\* the text DROP TABLE x
DropTableX == <<"D","R","O","P"," ","T","A","B","L","E"," ","x">>

\* C24 as stated: run_query_safe("DROP TABLE x") is refused with a reason
\* that holds 'drop'; in general a text that holds a forbidden keyword is
\* refused with a reason that names that keyword.
C24_AsStated ==
    (res.op = "run_query_safe" /\ HasForbidden(Normalized(res.arg)))
    => /\ Reason = "not_allowed"
       /\ Contains(Normalized(res.arg), FORBIDDEN[res.ret.error[2]])
       /\ res.arg = DropTableX => FORBIDDEN[res.ret.error[2]] = <<"d","r","o","p">>

\* C24 amended: run_query_safe("DROP TABLE x") is refused as 'only SELECT
\* queries allowed', a reason that does not hold 'drop'; a text that starts
\* with 'select' and holds forbidden keywords is refused with a reason that
\* names the first of them in the order of FORBIDDEN.
C24_KeywordNamed ==
    res.op = "run_query_safe" =>
        /\ res.arg = DropTableX => Reason = "only_select"
        /\ (StartsWith(Normalized(res.arg), Select) /\ HasForbidden(Normalized(res.arg)))
              => /\ Reason = "not_allowed"
                 /\ Contains(Normalized(res.arg), FORBIDDEN[res.ret.error[2]])
                 /\ \A j \in 1..(res.ret.error[2] - 1) :
                        ~Contains(Normalized(res.arg), FORBIDDEN[j])
                 /\ res.executed = <<>>

\* a select text that holds both 'update' and 'drop' was refused for 'update'
C24_Witness ==
    /\ res.op = "run_query_safe"
    /\ StartsWith(Normalized(res.arg), Select)
    /\ Contains(Normalized(res.arg), <<"d","r","o","p">>)
    /\ Contains(Normalized(res.arg), <<"u","p","d","a","t","e">>)
    /\ Reason = "not_allowed"
    /\ FORBIDDEN[res.ret.error[2]] = <<"u","p","d","a","t","e">>

\* a comma-separated identifier list that follows an identifier: a word,
\* optional whitespace, a comma, optional whitespace, a word
IdentifierList(s) ==
    \E i \in 2..Len(s) :
        /\ s[i] = ","
        /\ \E j \in (i + 1)..Len(s) :
              /\ s[j] \in WordChars
              /\ \A k \in (i + 1)..(j - 1) : s[k] \in Whitespace
        /\ \E h \in 1..(i - 1) :
              /\ s[h] \in WordChars
              /\ \A k \in (h + 1)..(i - 1) : s[k] \in Whitespace

\* a call of run_query_safe with a select text that holds no forbidden keyword
CleanSelectCall ==
    /\ res.op = "run_query_safe"
    /\ StartsWith(Normalized(res.arg), Select)
    /\ ~HasForbidden(Normalized(res.arg))

\* C25 as stated: a select text with no forbidden keyword is refused as
\* 'query blocked for safety' exactly when its normalized form holds
\* 'cross join' or a comma-separated identifier list that immediately
\* follows an identifier.
C25_AsStated ==
    CleanSelectCall =>
        (Reason = "blocked"
            <=> \/ Contains(Normalized(res.arg), <<"c","r","o","s","s"," ","j","o","i","n">>)
                \/ IdentifierList(Normalized(res.arg)))

\* a call of portfolio_query whose statement was built and sent to the store
ExecutedQuery == res.op = "portfolio_query" /\ res.executed # <<>>

\* the names a filter may bear
FilterNames == {"file_month", "region", "bucket", "vintage_band", "product_name"}

\* the texts a WHERE condition ends in: a comparison with a placeholder
Placeholders == {">= %s", "<= %s", "= %s"}

\* C26: for every valid structured query the caller's values are bound
\* parameters and are not part of the statement text. The parameters are
\* from_month and to_month, then product_name when one is given (not empty),
\* then the values of the accepted filters in order, one per placeholder of
\* the WHERE clause; with no product_name and no filters they are exactly
\* from_month and to_month.
C26_ValuesAreBoundParameters ==
    ExecutedQuery =>
        LET a == res.arg
            q == res.executed[1]
            given == IF a.product_name \in {None, ""} THEN <<>> ELSE <<a.product_name>>
            IsAccepted(f) ==
                /\ f[1] \in FilterNames
                /\ ~(f[1] = "product_name" /\ given # <<>>)
                /\ f[2] \notin {None, ""}
            kept == SelectSeq(a.filters, IsAccepted)
        IN  /\ q.params = <<a.from_month, a.to_month>> \o given
                              \o [i \in 1..Len(kept) |-> kept[i][2]]
            /\ Len(q.params) = Len(q.where)
            /\ \A i \in 1..Len(q.where) :
                  /\ q.where[i][1] \in FilterNames
                  /\ q.where[i][2] \in Placeholders
            /\ (given = <<>> /\ a.filters = <<>>)
                  => q.params = <<a.from_month, a.to_month>>

\* a query with a product name and two accepted filters was executed with
\* five parameters
C26_Witness ==
    /\ ExecutedQuery
    /\ res.arg.product_name = "PL Self"
    /\ res.arg.filters = <<<<"bucket", "B2">>, <<"product_name", "B2">>>>
    /\ res.executed[1].params
          = <<res.arg.from_month, res.arg.to_month, "PL Self", "B2">>

\* the filters whose key is an allowed dimension or product_name
KnownFilters(filters) ==
    LET IsKnown(f) == f[1] \in FilterNames
    IN  SelectSeq(filters, IsKnown)

\* C27: filter keys outside the allowed dimensions and product_name are
\* dropped silently: they do not make the query invalid, and the statement
\* text and the parameters are those of the same query without these keys.
C27_UnknownFilterKeysDropped ==
    res.op = "portfolio_query" =>
        LET without == [res.arg EXCEPT !.filters = KnownFilters(res.arg.filters)]
        IN  /\ res.ret.error[1] = "invalid" <=> ValidationError(without) # None
            /\ res.executed # <<>> => res.executed = <<BuildPortfolioSql(without)>>
            /\ res.executed # <<>> =>
                  \A i \in 1..Len(res.executed[1].where) :
                      res.executed[1].where[i][1] \in FilterNames

\* a query with an unknown filter key before a known one was executed with
\* the known filter only
C27_Witness ==
    /\ ExecutedQuery
    /\ res.arg.product_name = None
    /\ res.arg.filters = <<<<"1=1 OR bucket", "B2">>, <<"bucket", "B2">>>>
    /\ res.executed[1].params = <<res.arg.from_month, res.arg.to_month, "B2">>
    /\ Len(res.executed[1].where) = 3

\* an argument of update_context that is provided: neither None nor empty
Provided(value) == value \notin {None, ""}

\* C28: update_context(schema, table) overwrites last_schema exactly when a
\* schema is provided and last_table exactly when a table is provided; an
\* absent argument leaves the prior value of its field, and nothing but the
\* session context is modified.
C28_ContextOverwrite ==
    [][res'.op = "update_context" =>
          /\ CONTEXT_STATE'.last_schema =
                IF Provided(res'.arg[1]) THEN res'.arg[1]
                ELSE CONTEXT_STATE.last_schema
          /\ CONTEXT_STATE'.last_table =
                IF Provided(res'.arg[2]) THEN res'.arg[2]
                ELSE CONTEXT_STATE.last_table
          /\ DOMAIN CONTEXT_STATE' = {"last_schema", "last_table"}
          /\ UNCHANGED <<store, CONNECTION_POOL, METADATA_CACHE, now>>]_vars

\* update_context was called with a table and no schema, and the schema
\* stored by an earlier call is still there
C28_Witness ==
    /\ res.op = "update_context"
    /\ res.arg = <<None, "loans">>
    /\ CONTEXT_STATE = [last_schema |-> "gold", last_table |-> "loans"]

\* the table-scoped operations
TableScoped == {"describe_table", "preview_rows", "get_row_count", "deep_search"}

\* C29 as stated: after every table-scoped operation on (schema, table) that
\* returns a result without an error, the session context holds
\* last_schema = schema and last_table = table.
C29_ContextFollowsSuccess ==
    (/\ res.op \in TableScoped
     /\ ~res.raised
     /\ res.ret.error = None)
    => CONTEXT_STATE = [last_schema |-> res.arg[1], last_table |-> res.arg[2]]

\* the observed call met no failure of the store or of the pool
Answered(r) == ~r.raised /\ r.ret.message # "error"

\* C30 as stated: a table resolution repeated with the same arguments, with
\* no change of the store in between, returns the same result, suggestions
\* and their order included, whatever the first call did to the cache.
C30_RepeatedCallSameResult ==
    [][(/\ res.op = "verify_table_exists"
        /\ res'.op = "verify_table_exists"
        /\ res'.arg = res.arg
        /\ store' = store
        /\ Answered(res)
        /\ Answered(res'))
       => res'.ret = res.ret]_vars

\* a call of run_query_safe whose statement the store refused with an error
\* that names a missing relation
MissingRelationCall ==
    /\ res.op = "run_query_safe"
    /\ res.executed # <<>>
    /\ "relation" \in DOMAIN res.ret

\* C31 as stated: when the store refuses an accepted text with an error that
\* names a missing relation schema.table, run_query_safe asks the resolver
\* about that pair and returns the store's error with the resolver's
\* suggestions; for the typo collections_us.acounts the suggestions hold
\* collections_us.accounts when accounts is a table of that schema.
C31_ErrorEnriched ==
    MissingRelationCall =>
        /\ ~res.raised
        /\ res.ret.error[1] = "store"
        /\ (/\ res.ret.relation = <<"collections_us", "acounts">>
            /\ <<"collections_us", "accounts", "BASE TABLE">> \in store.rel)
              => \E i \in 1..Len(res.ret.suggestions) :
                    res.ret.suggestions[i] = <<"collections_us", "accounts">>

\* C32: every connection get_conn has handed out has autocommit on, at its
\* first use and at every reuse, and no connection, borrowed or back in the
\* pool, is in an aborted transaction, whatever statements failed on it.
C32_AutocommitOnEveryBorrow ==
    \A c \in 1..max_conn :
        /\ connections[c].owner # 0 => connections[c].autocommit
        /\ connections[c].status = "idle"

\* a statement has just failed on a connection that was borrowed for the
\* second time, and the connection is idle
C32_Witness ==
    /\ res.op = "execute_failed"
    /\ connections[res.arg[2]].owner = res.arg[1]
    /\ connections[res.arg[2]].reused
    /\ connections[res.arg[2]].status = "idle"

\* the threads that are inside an operation
Operating == {t \in HoldThreads : pc[t] # "idle"}

\* C33: no operation holds more than one pooled connection at a time, so
\* the operations under way together hold no more connections than there
\* are operations; a thread that asks the resolver without a connection
\* (lines r599 on) after its own statement failed holds none.
C33_OneConnectionPerOperation ==
    /\ \A t \in HoldThreads : Cardinality(HeldBy(t)) <= 1
    /\ Cardinality(UNION {HeldBy(t) : t \in HoldThreads}) <= Cardinality(Operating)
    /\ \A t \in HoldThreads : pc[t] \in {"r599", "t159", "f217"} => HeldBy(t) = {}

\* a thread is in the resolver on a connection of its own while another
\* thread holds the other connection of the pool
C33_Witness ==
    \E t, u \in HoldThreads :
        /\ t # u
        /\ pc[t] = "f221"
        /\ Cardinality(HeldBy(t)) = 1
        /\ pc[u] = "p750"
        /\ Cardinality(HeldBy(u)) = 1

\* every table of every cached table list has its schema in the index
ListsIndexed(cache) ==
    \A s \in DOMAIN cache.tables :
        \A i \in 1..Len(cache.tables[s].data) :
            /\ cache.tables[s].data[i] \in DOMAIN cache.table_to_schema
            /\ s \in cache.table_to_schema[cache.tables[s].data[i]]

\* C34 as stated: in every state another thread can observe, that is
\* whenever CACHE_LOCK is free, also between the steps of a refill or merge
\* under way, every table t of tables[s].data has s in table_to_schema[t].
C34_ListAndIndexAtomic ==
    CACHE_LOCK = 0 => ListsIndexed(METADATA_CACHE)

\* C35 as stated: a refill of tables[schema] whose store query ran first
\* never overwrites the result of a refill whose query ran later.  Tables
\* are only dropped here, so of two listings of a schema the strictly
\* larger one was read strictly earlier: no step replaces an entry by a
\* strict superset of what it held.
C35_NoStaleOverwrite ==
    [][\A s \in DOMAIN METADATA_CACHE.tables \cap DOMAIN METADATA_CACHE'.tables :
          ~ /\ Range(METADATA_CACHE.tables[s].data)
                   \subseteq Range(METADATA_CACHE'.tables[s].data)
            /\ Range(METADATA_CACHE.tables[s].data)
                   # Range(METADATA_CACHE'.tables[s].data)]_vars

\* a table resolution whose get_cached_table_names finds a valid entry for
\* the schema and answers from it without a store query
ServedFromCache ==
    /\ res'.op = "verify_table_exists"
    /\ now' = now
    /\ res'.arg[1] \in DOMAIN METADATA_CACHE.tables
    /\ _is_cache_valid(METADATA_CACHE.tables[res'.arg[1]])

\* C36 as stated: whenever get_cached_table_names(schema) answers from the
\* cache, the list it returns is a complete table listing of that schema;
\* the store does not change here, so no table that the store lists for the
\* schema is missing from it.
C36_CachedListIsComplete ==
    [][ServedFromCache
       => Range(QueryTables(res'.arg[1])) \subseteq Range(res'.listing)]_vars

\* the pair that the last completed update_context call of thread t wrote
PairOf(t) == [last_schema |-> frame[t].schema, last_table |-> frame[t].table]

\* C37 as stated: once concurrent update_context(s1, t1) and
\* update_context(s2, t2) have both completed, the context pair is the pair
\* of one single call, never one caller's schema with the other's table.
C37_NoMixedPair ==
    (\A t \in CacheThreads : /\ pc[t] = "u206"
                             /\ Truthy(frame[t].schema)
                             /\ Truthy(frame[t].table))
    => \E t \in CacheThreads : CONTEXT_STATE = PairOf(t)

\* no thread asks for CACHE_LOCK while it holds it, holds both locks, or is
\* inside get_conn or a store query while it holds CACHE_LOCK
LocksNotNested ==
    \A t \in CacheThreads :
        CACHE_LOCK = t => /\ pc[t] \notin WithLines
                          /\ POOL_LOCK # t
                          /\ pc[t] \notin QueryLines \cup PoolLines

\* the holder of CACHE_LOCK is never blocked: its next step can be taken
\* whatever the other threads do, and that step releases the lock
HolderReleases ==
    \A t \in CacheThreads :
        CACHE_LOCK = t => ENABLED (NestStep(t) /\ CACHE_LOCK' = 0)

\* C38: cache operations cannot deadlock: CACHE_LOCK is never requested by
\* its holder, never held together with POOL_LOCK nor across a pool
\* acquisition or a store round-trip, and a thread that has taken it
\* releases it with the next step it is scheduled for.
C38_NoDeadlock ==
    /\ LocksNotNested
    /\ HolderReleases

\* C38 witness: one thread is inside a CACHE_LOCK block while another holds
\* POOL_LOCK and is building the pool
C38_Witness ==
    \E t \in CacheThreads, u \in CacheThreads :
        /\ t # u
        /\ CACHE_LOCK = t
        /\ pc[t] \in AccessLines
        /\ POOL_LOCK = u
        /\ pc[u] = "l53"

\* the step is a helper call whose store query ran and raised
RefillFailed ==
    /\ res'.op \in {"list_schemas", "get_cached_table_names",
                    "find_table_across_schemas"}
    /\ res'.raised
    /\ res'.rt = 1

\* C39: if the store query of a refill fails, the three cache structures
\* are left exactly as they were before the call.
C39_FailedRefillKeepsCache ==
    [][RefillFailed => METADATA_CACHE' = METADATA_CACHE]_vars

\* C39 witness: the table list of a schema had expired, the refill's query
\* raised, and the expired entry is still there with its old timestamp
C39_Witness ==
    /\ res.op = "get_cached_table_names"
    /\ res.raised
    /\ res.rt = 1
    /\ res.before.data # <<>>
    /\ METADATA_CACHE.tables[res.arg[1]] = res.before
    /\ ~_is_cache_valid(res.before)

\* the step is a call of one of the four tools
TableToolCall == res'.op \in TableTools /\ now' = now

\* the call's check_table_exists answered, and answered exists = false
AnsweredMissing(r) == ~r.before.raised /\ ~r.before.ret.exists

====
